---------------------------- MODULE Spec2Model ----------------------------
(***************************************************************************)
(* A model of gobwas/httphead: the byte Scanner (lexer.go) and the grammar *)
(* scanners built on it (httphead.go).  Bytes are their integer codes, a   *)
(* byte slice is a sequence of codes, and Go's 0-based slice indices are   *)
(* kept: data[i] of the source is At(data, i), data[i:j] is Slice(data,i,j)*)
(***************************************************************************)
EXTENDS Integers, Sequences, FiniteSets, TLC

(***************************************************************************)
(* Byte literals of the source.                                            *)
(***************************************************************************)
Quote == 34
OpenParen == 40
CloseParen == 41
Comma == 44
Semicolon == 59
Equality == 61
Backslash == 92
Space == 32

(* A nil []byte, as opposed to an empty one. *)
NilBytes == << -1 >>

(***************************************************************************)
(* Go slice helpers.                                                       *)
(***************************************************************************)
At(data, i) == data[i + 1]

Slice(data, i, j) == SubSeq(data, i + 1, j)

From(data, i) == SubSeq(data, i + 1, Len(data))

(* bytes.IndexByte: index of the first c in data, -1 when there is none. *)
IndexByte(data, c) ==
  LET hits == {i \in 0..(Len(data) - 1) : At(data, i) = c}
  IN IF hits = {} THEN -1
     ELSE CHOOSE i \in hits : \A j \in hits : i <= j

(* copy(dst[k:], src) into a buffer of capacity cap that holds k bytes. *)
CopyInto(result, cap, src) ==
  LET room == cap - Len(result)
  IN result \o (IF Len(src) <= room THEN src ELSE SubSeq(src, 1, room))

(***************************************************************************)
(* The octet classification table.                                         *)
(***************************************************************************)
octetChar == 1
octetControl == 2
octetSpace == 4
octetSeparator == 8
octetToken == 16

SeparatorOctets == {40, 41, 60, 62, 64, 44, 59, 58, 34, 47, 91, 93, 63, 61, 123, 125, 92}

SpaceOctets == {32, 9}

(* The flag set of octet c, as init() fills it: the loop starts at 32. *)
OctetTypes(c) ==
  IF c < 32 \/ c > 255 THEN {}
  ELSE LET char == IF c <= 127 THEN {octetChar} ELSE {}
           ctl == IF (0 <= c /\ c <= 31) \/ c = 127 THEN {octetControl} ELSE {}
           sep == IF c \in SeparatorOctets THEN {octetSeparator}
                  ELSE IF c \in SpaceOctets THEN {octetSpace, octetSeparator}
                  ELSE {}
           t == char \cup ctl \cup sep
       IN IF octetChar \in t /\ octetControl \notin t
             /\ octetSeparator \notin t /\ octetSpace \notin t
          THEN t \cup {octetToken} ELSE t

IsChar(c) == octetChar \in OctetTypes(c)

IsControl(c) == octetControl \in OctetTypes(c)

IsSpace(c) == octetSpace \in OctetTypes(c)

IsSeparator(c) == octetSeparator \in OctetTypes(c)

IsToken(c) == octetToken \in OctetTypes(c)

(***************************************************************************)
(* Item types.                                                             *)
(***************************************************************************)
ItemUndef == 0
ItemToken == 1
ItemSeparator == 2
ItemString == 3
ItemComment == 4
ItemOctet == 5

(***************************************************************************)
(* The pure scanning functions of lexer.go.                                *)
(***************************************************************************)
RECURSIVE ScanUntilFrom(_, _, _)
ScanUntilFrom(data, c, n) ==
  LET i == IndexByte(From(data, n), c)
  IN IF i = -1 THEN -1
     ELSE LET n2 == n + i
          IN IF n2 = 0 \/ At(data, n2 - 1) # Backslash THEN n2
             ELSE ScanUntilFrom(data, c, n2 + 1)

ScanUntil(data, c) == ScanUntilFrom(data, c, 0)

(* The inner loop of ScanPairGreedy: for m < i { ... }. *)
RECURSIVE CountOpen(_, _, _, _, _)
CountOpen(data, open, m, i, opened) ==
  IF ~(m < i) THEN [m |-> m, opened |-> opened]
  ELSE LET j == IndexByte(Slice(data, m, i), open)
       IN IF j = -1 THEN [m |-> m, opened |-> opened]
          ELSE CountOpen(data, open, m + j + 1, i, opened + 1)

RECURSIVE ScanPairGreedyFrom(_, _, _, _, _, _)
ScanPairGreedyFrom(data, open, close, n, m, opened) ==
  LET i == IndexByte(From(data, n), close)
  IN IF i = -1 THEN -1
     ELSE LET n2 == n + i
              o1 == IF n2 = 0 \/ At(data, n2 - 1) # Backslash
                    THEN opened - 1 ELSE opened
              r == CountOpen(data, open, m, i, o1)
          IN IF r.opened = 0 THEN n2
             ELSE ScanPairGreedyFrom(data, open, close, n2 + 1, n2 + 1, r.opened)

ScanPairGreedy(data, open, close) ==
  ScanPairGreedyFrom(data, open, close, 0, 0, 1)

(* The loop of RemoveByte: for i := j + 1; i < n; { ... }. *)
RECURSIVE RemoveByteLoop(_, _, _, _, _)
RemoveByteLoop(data, c, n, i, result) ==
  IF ~(i < n) THEN result
  ELSE LET j == IndexByte(From(data, i), c)
       IN IF j # -1
          THEN RemoveByteLoop(data, c, n, i + j + 1,
                              CopyInto(result, n, Slice(data, i, i + j)))
          ELSE CopyInto(result, n, From(data, i))

RemoveByte(data, c) ==
  LET j == IndexByte(data, c)
  IN IF j = -1 THEN data
     ELSE LET n == Len(data) - 1
          IN RemoveByteLoop(data, c, n, j + 1, CopyInto(<<>>, n, Slice(data, 0, j)))

RECURSIVE SkipSpace(_)
SkipSpace(p) ==
  IF Len(p) = 0 THEN 0
  ELSE IF Len(p) >= 3 /\ p[1] = 13 /\ p[2] = 10 /\ IsSpace(p[3])
       THEN 3 + SkipSpace(From(p, 3))
  ELSE IF IsSpace(p[1]) THEN 1 + SkipSpace(From(p, 1))
  ELSE 0

RECURSIVE TokenRun(_, _)
TokenRun(p, n) ==
  IF n < Len(p) /\ IsToken(At(p, n)) THEN TokenRun(p, n + 1) ELSE n

ScanToken_OneByteToken(p) ==
  IF Len(p) = 0 THEN [n |-> 0, t |-> ItemUndef]
  ELSE IF IsSeparator(p[1]) THEN [n |-> 1, t |-> ItemSeparator]
  ELSE IF IsToken(p[1]) THEN [n |-> 1, t |-> ItemToken]
  ELSE [n |-> -1, t |-> ItemUndef]

ScanToken(p) ==
  IF Len(p) = 0 THEN [n |-> 0, t |-> ItemUndef]
  ELSE IF IsSeparator(p[1]) THEN [n |-> 1, t |-> ItemSeparator]
  ELSE IF IsToken(p[1]) THEN [n |-> TokenRun(p, 1), t |-> ItemToken]
  ELSE [n |-> -1, t |-> ItemUndef]

(***************************************************************************)
(* The Scanner: a record of its fields, and its methods as operators that  *)
(* give the Scanner after the call (l) and the value returned (ok).        *)
(***************************************************************************)
NewScanner(data) ==
  [data |-> data, pos |-> 0, itemType |-> ItemUndef, itemBytes |-> NilBytes,
   err |-> FALSE]

resetItem(l) == [l EXCEPT !.itemType = ItemUndef, !.itemBytes = NilBytes]

(* Scanner.next: the Scanner after it, the byte at the cursor, and ok. *)
next(l) ==
  LET r == resetItem(l)
  IN IF r.err THEN [l |-> r, c |-> 0, ok |-> FALSE]
     ELSE LET p == r.pos + SkipSpace(From(r.data, r.pos))
              r2 == [r EXCEPT !.pos = p]
          IN IF p = Len(r.data) THEN [l |-> r2, c |-> 0, ok |-> FALSE]
             ELSE [l |-> r2, c |-> At(r.data, p), ok |-> TRUE]

fetchOctet(l, c) ==
  LET j == IndexByte(From(l.data, l.pos), c)
      p == IF j = -1 THEN Len(l.data) ELSE l.pos + j
  IN [l |-> [l EXCEPT !.pos = p, !.itemType = ItemOctet,
                      !.itemBytes = Slice(l.data, l.pos, p)],
      ok |-> TRUE]

(* fetchToken leaving the position where it was. *)
fetchToken_PosNotAdvanced(l) ==
  LET r == ScanToken(From(l.data, l.pos))
  IN IF r.n = -1 THEN [l |-> [l EXCEPT !.err = TRUE], ok |-> FALSE]
     ELSE [l |-> [l EXCEPT !.itemType = r.t,
                           !.itemBytes = Slice(l.data, l.pos, l.pos + r.n)],
           ok |-> TRUE]

fetchToken(l) ==
  LET r == ScanToken(From(l.data, l.pos))
  IN IF r.n = -1 THEN [l |-> [l EXCEPT !.err = TRUE], ok |-> FALSE]
     ELSE [l |-> [l EXCEPT !.itemType = r.t,
                           !.itemBytes = Slice(l.data, l.pos, l.pos + r.n),
                           !.pos = l.pos + r.n],
           ok |-> TRUE]

fetchQuotedString(l) ==
  LET p == l.pos + 1
      n == ScanUntil(From(l.data, p), Quote)
  IN IF n = -1 THEN [l |-> [l EXCEPT !.pos = p, !.err = TRUE], ok |-> FALSE]
     ELSE [l |-> [l EXCEPT !.itemType = ItemString,
                           !.itemBytes = RemoveByte(Slice(l.data, p, p + n), Backslash),
                           !.pos = p + n + 1],
           ok |-> TRUE]

fetchComment(l) ==
  LET p == l.pos + 1
      n == ScanPairGreedy(From(l.data, p), OpenParen, CloseParen)
  IN IF n = -1 THEN [l |-> [l EXCEPT !.pos = p, !.err = TRUE], ok |-> FALSE]
     ELSE [l |-> [l EXCEPT !.itemType = ItemComment,
                           !.itemBytes = RemoveByte(Slice(l.data, p, p + n), Backslash),
                           !.pos = p + n + 1],
           ok |-> TRUE]

ScannerNext(l) ==
  LET r == next(l)
  IN IF ~r.ok THEN [l |-> r.l, ok |-> FALSE]
     ELSE IF r.c = Quote THEN fetchQuotedString(r.l)
     ELSE IF r.c = OpenParen THEN fetchComment(r.l)
     ELSE IF r.c = Backslash \/ r.c = CloseParen
          THEN [l |-> [r.l EXCEPT !.err = TRUE], ok |-> FALSE]
     ELSE fetchToken(r.l)

ScannerNextOctet(l, c) ==
  LET r == next(l)
  IN IF ~r.ok THEN [l |-> r.l, ok |-> FALSE]
     ELSE fetchOctet(r.l, c)

ScannerPeek(l) == IF l.pos = Len(l.data) THEN 0 ELSE At(l.data, l.pos)

ScannerSkip_IgnoringErr(l, c) ==
  LET r == resetItem(l)
      i == IndexByte(From(r.data, r.pos), c)
  IN [r EXCEPT !.pos = IF i = -1 THEN Len(r.data) ELSE r.pos + i + 1]

ScannerSkip(l, c) ==
  IF l.err THEN l
  ELSE LET r == resetItem(l)
           i == IndexByte(From(r.data, r.pos), c)
       IN [r EXCEPT !.pos = IF i = -1 THEN Len(r.data) ELSE r.pos + i + 1]

(* ScannerSkipEscaped taking the index found for a position in data. *)
ScannerSkipEscaped_IndexAsPosition(l, c) ==
  IF l.err THEN l
  ELSE LET r == resetItem(l)
           i == ScanUntil(From(r.data, r.pos), c)
       IN [r EXCEPT !.pos = IF i = -1 THEN Len(r.data) ELSE i + 1]

ScannerSkipEscaped(l, c) ==
  IF l.err THEN l
  ELSE LET r == resetItem(l)
           i == ScanUntil(From(r.data, r.pos), c)
       IN [r EXCEPT !.pos = IF i = -1 THEN Len(r.data) ELSE r.pos + i + 1]

(***************************************************************************)
(* ScanOptions (httphead.go).  Its local variables are the record f; one   *)
(* step is one iteration of `for lexer.Next()`.                            *)
(***************************************************************************)
ControlContinue == 0
ControlBreak == 1
ControlSkip == 2

stateKey == 0
stateParamBeforeName == 1
stateParamName == 2
stateParamBeforeValue == 3
stateParamValue == 4

(* isComma comparing with the wrong separator. *)
isComma_Semicolon(b) == Len(b) = 1 /\ b[1] = Semicolon

isComma(b) == Len(b) = 1 /\ b[1] = Comma

isSemicolon(b) == Len(b) = 1 /\ b[1] = Semicolon

isEquality(b) == Len(b) = 1 /\ b[1] = Equality

(* The locals of ScanOptions at its first statement. *)
OptionsFrame ==
  [ok |-> FALSE, state |-> stateKey, index |-> 0, key |-> NilBytes,
   param |-> NilBytes, value |-> NilBytes, mustCall |-> FALSE]

(* The `switch t` of the loop body on item (t, v): the locals after it,    *)
(* whether the callback is due (call), growIndex, and whether the switch   *)
(* returned false (reject).                                                *)
OptionsStep(f, call, growIndex) ==
  [f |-> f, call |-> call, growIndex |-> growIndex, reject |-> FALSE]

OptionsReject(f) == [f |-> f, call |-> FALSE, growIndex |-> 0, reject |-> TRUE]

ScanOptionsSwitch(f, t, v) ==
  IF t = ItemToken THEN
    IF f.state \in {stateKey, stateParamBeforeName}
    THEN OptionsStep([f EXCEPT !.key = v, !.state = stateParamBeforeName,
                               !.mustCall = TRUE], FALSE, 0)
    ELSE IF f.state = stateParamName
    THEN OptionsStep([f EXCEPT !.param = v, !.state = stateParamBeforeValue,
                               !.mustCall = TRUE], FALSE, 0)
    ELSE IF f.state = stateParamValue
    THEN OptionsStep([f EXCEPT !.value = v, !.state = stateParamBeforeName], TRUE, 0)
    ELSE OptionsReject(f)
  ELSE IF t = ItemString THEN
    IF f.state # stateParamValue THEN OptionsReject(f)
    ELSE OptionsStep([f EXCEPT !.value = v, !.state = stateParamBeforeName], TRUE, 0)
  ELSE IF t = ItemSeparator THEN
    IF isComma(v) /\ f.state = stateKey THEN OptionsStep(f, FALSE, 0)
    ELSE IF isComma(v) /\ f.state = stateParamBeforeName
    THEN IF ~f.mustCall
         THEN OptionsStep([f EXCEPT !.state = stateKey, !.index = f.index + 1], FALSE, 0)
         ELSE OptionsStep([f EXCEPT !.state = stateKey], TRUE, 1)
    ELSE IF isComma(v) /\ f.state = stateParamBeforeValue
    THEN OptionsStep([f EXCEPT !.state = stateKey], TRUE, 1)
    ELSE IF isSemicolon(v) /\ f.state = stateParamBeforeName
    THEN OptionsStep([f EXCEPT !.state = stateParamName], FALSE, 0)
    ELSE IF isSemicolon(v) /\ f.state = stateParamBeforeValue
    THEN OptionsStep([f EXCEPT !.state = stateParamName], TRUE, 0)
    ELSE IF isEquality(v) /\ f.state = stateParamBeforeValue
    THEN OptionsStep([f EXCEPT !.state = stateParamValue], FALSE, 0)
    ELSE OptionsReject(f)
  ELSE OptionsReject(f)

(* The tuple handed to the callback, with the Control it answered. *)
OptionsCall(f, ctl) ==
  [index |-> f.index, key |-> f.key, param |-> f.param, value |-> f.value,
   ctl |-> ctl]

(* ScanOptionsControl with the ControlBreak case falling through to the   *)
(* code after the switch instead of returning.                             *)
ScanOptionsControl_BreakFallsThrough(f, l, ctl, growIndex) ==
  LET f1 == IF ctl = ControlSkip THEN [f EXCEPT !.state = stateKey] ELSE f
      l1 == IF ctl = ControlSkip THEN ScannerSkipEscaped(l, Comma) ELSE l
  IN [return |-> FALSE, panic |-> FALSE,
      f |-> [f1 EXCEPT !.ok = TRUE, !.param = NilBytes, !.value = NilBytes,
                       !.mustCall = FALSE, !.index = f1.index + growIndex],
      l |-> l1]

(* ScanOptionsControl with ControlSkip moving the index on by one more. *)
ScanOptionsControl_SkipGrowsIndex(f, l, ctl, growIndex) ==
  IF ctl = ControlBreak THEN [return |-> TRUE, panic |-> FALSE, f |-> f, l |-> l]
  ELSE IF ctl \notin {ControlSkip, ControlContinue}
  THEN [return |-> FALSE, panic |-> TRUE, f |-> f, l |-> l]
  ELSE LET f1 == IF ctl = ControlSkip
                 THEN [f EXCEPT !.state = stateKey, !.index = f.index + 1]
                 ELSE f
           l1 == IF ctl = ControlSkip THEN ScannerSkipEscaped(l, Comma) ELSE l
       IN [return |-> FALSE, panic |-> FALSE,
           f |-> [f1 EXCEPT !.ok = TRUE, !.param = NilBytes, !.value = NilBytes,
                            !.mustCall = FALSE, !.index = f1.index + growIndex],
           l |-> l1]

(* `if call { switch it(...) ... }` when the callback answers ctl: whether *)
(* ScanOptions returns (true) at once or panics (the default case), and    *)
(* else the locals and the Scanner after the block.                        *)
ScanOptionsControl(f, l, ctl, growIndex) ==
  IF ctl = ControlBreak THEN [return |-> TRUE, panic |-> FALSE, f |-> f, l |-> l]
  ELSE IF ctl \notin {ControlSkip, ControlContinue}
  THEN [return |-> FALSE, panic |-> TRUE, f |-> f, l |-> l]
  ELSE LET f1 == IF ctl = ControlSkip THEN [f EXCEPT !.state = stateKey] ELSE f
           l1 == IF ctl = ControlSkip THEN ScannerSkipEscaped(l, Comma) ELSE l
       IN [return |-> FALSE, panic |-> FALSE,
           f |-> [f1 EXCEPT !.ok = TRUE, !.param = NilBytes, !.value = NilBytes,
                            !.mustCall = FALSE, !.index = f1.index + growIndex],
           l |-> l1]

(* ScanOptionsReturn without the test of ok. *)
ScanOptionsReturn_WithoutOk(f, l) == ~l.err

(* The value returned after the loop: ok && !lexer.err, ok set by the flush. *)
ScanOptionsReturn(f, l) == (f.ok \/ f.mustCall) /\ ~l.err

(***************************************************************************)
(* ScanTokens.  ScanTokensItem is the `switch lexer.Type()` of its loop on *)
(* the item (t, v) when the callback would answer it: the local ok after   *)
(* it, whether the callback runs (call), whether ScanTokens returns and    *)
(* the value it returns.  ScanTokensReturn is the return after the loop.   *)
(***************************************************************************)
(* ScanTokensItem passing over any separator; and returning false when    *)
(* the callback answers false.                                             *)
ScanTokensItem_AnySeparator(ok, t, v, it) ==
  IF t = ItemToken
  THEN [ok |-> TRUE, call |-> TRUE, return |-> ~it, value |-> TRUE]
  ELSE IF t = ItemSeparator
  THEN [ok |-> ok, call |-> FALSE, return |-> FALSE, value |-> FALSE]
  ELSE [ok |-> ok, call |-> FALSE, return |-> TRUE, value |-> FALSE]

ScanTokensItem_FalseStopsWithFalse(ok, t, v, it) ==
  IF t = ItemToken
  THEN [ok |-> TRUE, call |-> TRUE, return |-> ~it, value |-> FALSE]
  ELSE IF t = ItemSeparator
  THEN [ok |-> ok, call |-> FALSE, return |-> ~isComma(v), value |-> FALSE]
  ELSE [ok |-> ok, call |-> FALSE, return |-> TRUE, value |-> FALSE]

ScanTokensItem(ok, t, v, it) ==
  IF t = ItemToken
  THEN [ok |-> TRUE, call |-> TRUE, return |-> ~it, value |-> TRUE]
  ELSE IF t = ItemSeparator
  THEN [ok |-> ok, call |-> FALSE, return |-> ~isComma(v), value |-> FALSE]
  ELSE [ok |-> ok, call |-> FALSE, return |-> TRUE, value |-> FALSE]

ScanTokensReturn(ok, l) == ok /\ ~l.err

(***************************************************************************)
(* ScanCookie.  Its locals are a record: state, key, value and the         *)
(* parameter validate.  Each operator below is one case of the switch in   *)
(* its loop, on the Scanner l as Next left it: the locals and the Scanner  *)
(* after the case, whether ScanCookie returns (return) and with what       *)
(* (value), whether the callback ran (call), and whether the case          *)
(* panicked.                                                               *)
(***************************************************************************)
stateBeforeKey == 1
stateValue == 2

CookieFrame(validate) ==
  [state |-> stateKey, key |-> NilBytes, value |-> NilBytes, validate |-> validate]

CookieStep(f, l) ==
  [f |-> f, l |-> l, return |-> FALSE, value |-> FALSE, call |-> FALSE, panic |-> FALSE]

CookieReturn(f, l, value) ==
  [f |-> f, l |-> l, return |-> TRUE, value |-> value, call |-> FALSE, panic |-> FALSE]

(* stripQuotes: bts[0] panics on an empty value, bts[1:last] on a value of *)
(* the one byte `"`.                                                       *)
stripQuotes(bts) ==
  IF Len(bts) = 0 THEN [panic |-> TRUE, b |-> bts]
  ELSE LET lastb == Len(bts) - 1
       IN IF At(bts, 0) = Quote /\ At(bts, lastb) = Quote
          THEN (IF lastb < 1 THEN [panic |-> TRUE, b |-> bts]
                ELSE [panic |-> FALSE, b |-> Slice(bts, 1, lastb)])
          ELSE [panic |-> FALSE, b |-> bts]

ValidCookieValue(value) ==
  \A i \in 1..Len(value) :
    LET c == value[i]
    IN /\ ~(IsControl(c) \/ IsSpace(c))
       /\ c \notin {Quote, Semicolon, Backslash, Comma}
       /\ ~(c >= 127)

(* case ItemToken *)
ScanCookieToken(f, l) ==
  IF f.state # stateKey THEN CookieReturn(f, l, FALSE)
  ELSE CookieStep([f EXCEPT !.key = l.itemBytes, !.state = stateValue], l)

(* ScanCookieSeparator without the test of the space after the `;`. *)
ScanCookieSeparator_NoSpaceNeeded(f, l) ==
  IF ~isSemicolon(l.itemBytes) THEN CookieReturn(f, l, FALSE)
  ELSE CookieStep([f EXCEPT !.state = stateKey], l)

(* case ItemSeparator, state == stateBeforeKey *)
ScanCookieSeparator(f, l) ==
  IF ~isSemicolon(l.itemBytes) THEN CookieReturn(f, l, FALSE)
  ELSE IF ScannerPeek(l) # Space THEN CookieReturn(f, l, FALSE)
  ELSE CookieStep([f EXCEPT !.state = stateKey], l)

(* ScanCookiePair leaving the state at stateValue after the callback. *)
ScanCookiePair_StateNotAdvanced(f, l, it) ==
  IF f.state # stateValue \/ ~isEquality(l.itemBytes) THEN CookieReturn(f, l, FALSE)
  ELSE LET n == ScannerNextOctet(l, Semicolon)
           v == stripQuotes(n.l.itemBytes)
           f1 == [f EXCEPT !.value = v.b]
       IN IF ~n.ok THEN CookieReturn(f, n.l, FALSE)
          ELSE IF v.panic THEN [CookieStep(f, n.l) EXCEPT !.panic = TRUE]
          ELSE IF f.validate /\ ~ValidCookieValue(v.b) THEN CookieReturn(f1, n.l, FALSE)
          ELSE IF ~it THEN [CookieReturn(f1, n.l, TRUE) EXCEPT !.call = TRUE]
          ELSE [CookieStep(f1, n.l) EXCEPT !.call = TRUE]

(* case ItemSeparator, any other state *)
ScanCookiePair(f, l, it) ==
  IF f.state # stateValue \/ ~isEquality(l.itemBytes) THEN CookieReturn(f, l, FALSE)
  ELSE LET n == ScannerNextOctet(l, Semicolon)
           v == stripQuotes(n.l.itemBytes)
           f1 == [f EXCEPT !.value = v.b]
       IN IF ~n.ok THEN CookieReturn(f, n.l, FALSE)
          ELSE IF v.panic THEN [CookieStep(f, n.l) EXCEPT !.panic = TRUE]
          ELSE IF f.validate /\ ~ValidCookieValue(v.b) THEN CookieReturn(f1, n.l, FALSE)
          ELSE IF ~it THEN [CookieReturn(f1, n.l, TRUE) EXCEPT !.call = TRUE]
          ELSE [CookieStep([f1 EXCEPT !.state = stateBeforeKey], n.l) EXCEPT !.call = TRUE]

(* the return after the loop *)
ScanCookieReturn(f) == f.state = stateBeforeKey

(***************************************************************************)
(* Inputs.  A header value is any byte string; the bounded sets below take *)
(* the bytes the two scanners tell apart.  97 and 98 are the token bytes   *)
(* `a` and `b`; 9 is HT, an octet below 32 that init() leaves unclassified.*)
(***************************************************************************)
MaxLen == 4
MaxPieces == 4
MaxScanLen == 4

BoundedSeq(S, n) == UNION {[1..k -> S] : k \in 0..n}

TokenA == <<97>>

TokenB == <<98>>

OptionsAlphabet == {97, Comma, Semicolon, Equality, Quote, Backslash, Space}

ScannerAlphabet == {97, 9, Space, Quote, Backslash, OpenParen, CloseParen}

Delimiters == {Quote}

(* Inputs generated by the grammar                                         *)
(*   values = 1#value, value = token *( ";" param ),                       *)
(*   param = token [ "=" (token | quoted-string) ]                         *)
(* as a sequence of pieces: a key opens a top-level value, a param adds a  *)
(* parameter to the value opened last, and an empty piece is an empty list *)
(* element after LWS (the #rule allows both).  A quoted value is kept as   *)
(* the text it stands for; Render writes it with its quotes and escapes.   *)
QuotedTexts == {<<Comma>>, <<Backslash>>, <<97, Quote>>}

ParamValues ==
  {[kind |-> "none", text |-> NilBytes], [kind |-> "token", text |-> TokenA]}
    \cup {[kind |-> "quoted", text |-> t] : t \in QuotedTexts}

KeyPieces == {[piece |-> "key", name |-> k] : k \in {TokenA, TokenB}}

ParamPieces == {[piece |-> "param", attr |-> TokenA, val |-> v] : v \in ParamValues}

EmptyPieces == {[piece |-> "empty"]}

GeneratedLists ==
  {g \in BoundedSeq(KeyPieces \cup ParamPieces \cup EmptyPieces, MaxPieces) :
     /\ Len(g) >= 1
     /\ g[1].piece = "key"
     /\ \A i \in 2..Len(g) : g[i].piece = "param" => g[i - 1].piece # "empty"}

RECURSIVE Escape(_)
Escape(text) ==
  IF text = <<>> THEN <<>>
  ELSE (IF text[1] \in {Quote, Backslash} THEN <<Backslash, text[1]>> ELSE <<text[1]>>)
       \o Escape(Tail(text))

RenderValue(v) ==
  IF v.kind = "none" THEN <<>>
  ELSE IF v.kind = "token" THEN <<Equality>> \o v.text
  ELSE <<Equality, Quote>> \o Escape(v.text) \o <<Quote>>

RECURSIVE Render(_, _)
Render(g, i) ==
  IF i > Len(g) THEN <<>>
  ELSE (IF g[i].piece = "key"
        THEN (IF i = 1 THEN <<>> ELSE <<Comma>>) \o g[i].name
        ELSE IF g[i].piece = "empty" THEN <<Space, Comma>>
        ELSE <<Semicolon>> \o g[i].attr \o RenderValue(g[i].val))
       \o Render(g, i + 1)

(***************************************************************************)
(* State.                                                                  *)
(*   lexer   the Scanner                                                   *)
(*   last    the Scanner method called last: its name, its byte argument,  *)
(*           what it returned (ok, byte) and the cursor and error flag it  *)
(*           found                                                         *)
(*   pc      where ScanOptions is: "scan" in its loop, "done" returned,    *)
(*           "idle" when no ScanOptions call is running                    *)
(*   frame   the locals of ScanOptions                                     *)
(*   result  the value ScanOptions returned                                *)
(*   calls   the callback invocations so far, with the Control answered    *)
(*   gen     the pieces the input was rendered from, <<>> for a raw input  *)
(***************************************************************************)
VARIABLES lexer, last, pc, frame, result, calls, gen

vars == <<lexer, last, pc, frame, result, calls, gen>>

NoCall == [op |-> "New", c |-> 0, ok |-> TRUE, byte |-> 0, pos |-> 0, err |-> FALSE]

Controls == {ControlContinue, ControlBreak, ControlSkip}

(***************************************************************************)
(* ScanOptions over a raw or a generated input.                            *)
(***************************************************************************)
InitOptions ==
  /\ \/ /\ gen = <<>>
        /\ \E data \in BoundedSeq(OptionsAlphabet, MaxLen) : lexer = NewScanner(data)
     \/ /\ gen \in GeneratedLists
        /\ lexer = NewScanner(Render(gen, 1))
  /\ last = NoCall
  /\ pc = "scan"
  /\ frame = OptionsFrame
  /\ result = FALSE
  /\ calls = <<>>

(* An item that needs no callback. *)
OptionsItem ==
  /\ pc = "scan"
  /\ \E n \in {ScannerNext(lexer)} :
       \E sw \in {ScanOptionsSwitch(frame, n.l.itemType, n.l.itemBytes)} :
         /\ n.ok /\ ~sw.reject /\ ~sw.call
         /\ lexer' = n.l
         /\ frame' = sw.f
  /\ UNCHANGED <<last, pc, result, calls, gen>>

(* An item the grammar forbids in this state: return false. *)
OptionsMalformed ==
  /\ pc = "scan"
  /\ \E n \in {ScannerNext(lexer)} :
       \E sw \in {ScanOptionsSwitch(frame, n.l.itemType, n.l.itemBytes)} :
         /\ n.ok /\ sw.reject
         /\ lexer' = n.l
         /\ frame' = sw.f
  /\ pc' = "done"
  /\ result' = FALSE
  /\ UNCHANGED <<last, calls, gen>>

(* An item that completes a tuple: the callback runs and answers ctl. *)
OptionsCallback ==
  /\ pc = "scan"
  /\ \E n \in {ScannerNext(lexer)} :
       \E sw \in {ScanOptionsSwitch(frame, n.l.itemType, n.l.itemBytes)} :
         /\ n.ok /\ ~sw.reject /\ sw.call
         /\ \E ctl \in Controls :
              \E r \in {ScanOptionsControl(sw.f, n.l, ctl, sw.growIndex)} :
                /\ calls' = Append(calls, OptionsCall(sw.f, ctl))
                /\ lexer' = r.l
                /\ frame' = r.f
                /\ pc' = IF r.return THEN "done" ELSE "scan"
                /\ result' = r.return
  /\ UNCHANGED <<last, gen>>

(* lexer.Next() returned false: the pending tuple is flushed (the Control  *)
(* the callback answers is discarded) and ScanOptions returns.             *)
OptionsEnd ==
  /\ pc = "scan"
  /\ \E n \in {ScannerNext(lexer)} :
       /\ ~n.ok
       /\ lexer' = n.l
       /\ calls' = IF frame.mustCall
                   THEN Append(calls, OptionsCall(frame, ControlContinue))
                   ELSE calls
       /\ frame' = [frame EXCEPT !.ok = frame.ok \/ frame.mustCall]
       /\ result' = ScanOptionsReturn(frame, n.l)
  /\ pc' = "done"
  /\ UNCHANGED <<last, gen>>

NextOptions == OptionsItem \/ OptionsMalformed \/ OptionsCallback \/ OptionsEnd

SpecOptions == InitOptions /\ [][NextOptions]_vars

(***************************************************************************)
(* The Scanner's methods called in any order on any input.                 *)
(***************************************************************************)
(* Scanner inputs: every string over the alphabet, and the longer strings  *)
(* of parentheses alone, where comments nest.                              *)
(* and the strings put together from line folds, whitespace, a token byte  *)
(* and a comma.                                                            *)
MaxFolds == 3

FoldPieces ==
  {<<13, 10, Space>>, <<13, 10, 9>>, <<13, 10>>, <<Space>>, <<9>>, <<97>>, <<Comma>>}

RECURSIVE Flatten(_)
Flatten(pieces) ==
  IF pieces = <<>> THEN <<>> ELSE Head(pieces) \o Flatten(Tail(pieces))

FoldInputs == {Flatten(pieces) : pieces \in BoundedSeq(FoldPieces, MaxFolds)}

ScannerInputs ==
  BoundedSeq(ScannerAlphabet, MaxScanLen)
    \cup BoundedSeq({OpenParen, CloseParen}, MaxScanLen + 2)
    \cup FoldInputs

InitScanner ==
  /\ \E data \in ScannerInputs : lexer = NewScanner(data)
  /\ last = NoCall
  /\ pc = "idle"
  /\ frame = OptionsFrame
  /\ result = FALSE
  /\ calls = <<>>
  /\ gen = <<>>

Called(op, c, ok, byte) ==
  [op |-> op, c |-> c, ok |-> ok, byte |-> byte, pos |-> lexer.pos, err |-> lexer.err]

CallNext ==
  /\ LET n == ScannerNext(lexer)
     IN /\ lexer' = n.l
        /\ last' = Called("Next", 0, n.ok, 0)
  /\ UNCHANGED <<pc, frame, result, calls, gen>>

CallNextOctet ==
  /\ \E c \in Delimiters :
       LET n == ScannerNextOctet(lexer, c)
       IN /\ lexer' = n.l
          /\ last' = Called("NextOctet", c, n.ok, 0)
  /\ UNCHANGED <<pc, frame, result, calls, gen>>

CallPeek ==
  /\ last' = Called("Peek", 0, TRUE, ScannerPeek(lexer))
  /\ UNCHANGED <<lexer, pc, frame, result, calls, gen>>

CallSkip ==
  /\ \E c \in Delimiters :
       /\ lexer' = ScannerSkip(lexer, c)
       /\ last' = Called("Skip", c, TRUE, 0)
  /\ UNCHANGED <<pc, frame, result, calls, gen>>

CallSkipEscaped ==
  /\ \E c \in Delimiters :
       /\ lexer' = ScannerSkipEscaped(lexer, c)
       /\ last' = Called("SkipEscaped", c, TRUE, 0)
  /\ UNCHANGED <<pc, frame, result, calls, gen>>

NextScanner == CallNext \/ CallNextOctet \/ CallPeek \/ CallSkip \/ CallSkipEscaped

SpecScanner == InitScanner /\ [][NextScanner]_vars

(***************************************************************************)
(* ScanTokens over any input, one loop iteration per step; the callback    *)
(* answers true or false.  calls holds the tokens handed to the callback   *)
(* with its answers.  After a scan that returned true with every answer    *)
(* true, the tokens it delivered are joined with commas and scanned again: *)
(* gen holds the tokens of the first scan.                                 *)
(***************************************************************************)
TokensAlphabet == {97, 98, Comma, Semicolon, Space, Quote}

(* a,b,,c  a,b;c  a,b,c *)
TokensExamples ==
  {<<97, Comma, 98, Comma, Comma, 99>>, <<97, Comma, 98, Semicolon, 99>>,
   <<97, Comma, 98, Comma, 99>>}

RECURSIVE JoinCommas(_)
JoinCommas(tokens) ==
  IF tokens = <<>> THEN <<>>
  ELSE IF Len(tokens) = 1 THEN tokens[1]
  ELSE tokens[1] \o <<Comma>> \o JoinCommas(Tail(tokens))

InitTokens ==
  /\ \E data \in BoundedSeq(TokensAlphabet, MaxLen) \cup TokensExamples :
       lexer = NewScanner(data)
  /\ last = NoCall
  /\ pc = "tokens"
  /\ frame = OptionsFrame
  /\ result = FALSE
  /\ calls = <<>>
  /\ gen = <<>>

(* A token item: the callback runs and answers it. *)
TokensToken ==
  /\ pc = "tokens"
  /\ \E n \in {ScannerNext(lexer)} :
       \E it \in BOOLEAN :
         \E r \in {ScanTokensItem(frame.ok, n.l.itemType, n.l.itemBytes, it)} :
           /\ n.ok /\ r.call
           /\ lexer' = n.l
           /\ calls' = Append(calls, [token |-> n.l.itemBytes, it |-> it])
           /\ frame' = [frame EXCEPT !.ok = r.ok]
           /\ pc' = IF r.return THEN "done" ELSE "tokens"
           /\ result' = IF r.return THEN r.value ELSE result
  /\ UNCHANGED <<last, gen>>

(* A separator item: a comma is passed over, any other ends the scan. *)
TokensSeparator ==
  /\ pc = "tokens"
  /\ \E n \in {ScannerNext(lexer)} :
       \E r \in {ScanTokensItem(frame.ok, n.l.itemType, n.l.itemBytes, TRUE)} :
         /\ n.ok /\ n.l.itemType = ItemSeparator
         /\ lexer' = n.l
         /\ frame' = [frame EXCEPT !.ok = r.ok]
         /\ pc' = IF r.return THEN "done" ELSE "tokens"
         /\ result' = IF r.return THEN r.value ELSE result
  /\ UNCHANGED <<last, calls, gen>>

(* A quoted-string or a comment: the default case. *)
TokensOther ==
  /\ pc = "tokens"
  /\ \E n \in {ScannerNext(lexer)} :
       \E r \in {ScanTokensItem(frame.ok, n.l.itemType, n.l.itemBytes, TRUE)} :
         /\ n.ok /\ n.l.itemType \notin {ItemToken, ItemSeparator}
         /\ lexer' = n.l
         /\ frame' = [frame EXCEPT !.ok = r.ok]
         /\ pc' = IF r.return THEN "done" ELSE "tokens"
         /\ result' = IF r.return THEN r.value ELSE result
  /\ UNCHANGED <<last, calls, gen>>

(* lexer.Next() returned false. *)
TokensEnd ==
  /\ pc = "tokens"
  /\ \E n \in {ScannerNext(lexer)} :
       /\ ~n.ok
       /\ lexer' = n.l
       /\ result' = ScanTokensReturn(frame.ok, n.l)
  /\ pc' = "done"
  /\ UNCHANGED <<last, frame, calls, gen>>

(* ScanTokens called again on the delivered tokens joined with commas. *)
TokensRescan ==
  /\ pc = "done" /\ gen = <<>> /\ result
  /\ \A i \in 1..Len(calls) : calls[i].it
  /\ gen' = [i \in 1..Len(calls) |-> calls[i].token]
  /\ lexer' = NewScanner(JoinCommas(gen'))
  /\ pc' = "tokens"
  /\ frame' = OptionsFrame
  /\ result' = FALSE
  /\ calls' = <<>>
  /\ UNCHANGED last

NextTokens == TokensToken \/ TokensSeparator \/ TokensOther \/ TokensEnd \/ TokensRescan

SpecTokens == InitTokens /\ [][NextTokens]_vars

(***************************************************************************)
(* ScanCookie over a raw or a generated input, one loop iteration per      *)
(* step; the callback answers true or false.  calls holds the pairs handed *)
(* to the callback with its answers, gen the pieces a generated input was  *)
(* rendered from.  A piece is a cookie-pair (its name, its value, whether  *)
(* the value is wrapped in double quotes, and whether a space follows the  *)
(* `;` before it) or, as the last piece, a trailing `;`.                   *)
(***************************************************************************)
MaxPairs == 3

CookieAlphabet == {97, Equality, Semicolon, Space, Quote}

(* b and a= are cookie-octets only; `b c`, `"b` and the control byte 1 are *)
(* not; a@b is no token.                                                   *)
ValidValues == {<<98>>, <<97, Equality>>}

InvalidValues == {<<98, Space, 99>>, <<Quote, 98>>, <<1>>}

MalformedName == <<97, 64, 98>>

CookiePair(name, value, quoted, spaced) ==
  [piece |-> "pair", name |-> name, value |-> value, quoted |-> quoted, spaced |-> spaced]

GoodPairs ==
  {CookiePair(n, <<98>>, q, TRUE) : n \in {TokenA, TokenB}, q \in BOOLEAN}
    \cup {CookiePair(TokenA, <<97, Equality>>, FALSE, TRUE)}

UnspacedPairs == {CookiePair(TokenB, <<98>>, FALSE, FALSE)}

InvalidValuePairs == {CookiePair(TokenA, v, FALSE, TRUE) : v \in InvalidValues}

MalformedNamePairs == {CookiePair(MalformedName, <<98>>, FALSE, TRUE)}

TrailingSemicolon == [piece |-> "semicolon"]

GeneratedCookies ==
  LET pairs == GoodPairs \cup UnspacedPairs \cup InvalidValuePairs \cup MalformedNamePairs
  IN {g \in BoundedSeq(pairs, MaxPairs) : Len(g) >= 1 /\ g[1].spaced}
       \cup {Append(g, TrailingSemicolon) :
               g \in {h \in BoundedSeq(pairs, MaxPairs - 1) : Len(h) >= 1 /\ h[1].spaced}}

RenderPair(p) ==
  p.name \o <<Equality>>
    \o (IF p.quoted THEN <<Quote>> \o p.value \o <<Quote>> ELSE p.value)

RECURSIVE RenderCookie(_, _)
RenderCookie(g, i) ==
  IF i > Len(g) THEN <<>>
  ELSE (IF g[i].piece = "semicolon" THEN <<Semicolon>>
        ELSE (IF i = 1 THEN <<>>
              ELSE IF g[i].spaced THEN <<Semicolon, Space>> ELSE <<Semicolon>>)
             \o RenderPair(g[i]))
       \o RenderCookie(g, i + 1)

(* foo="; bar=baz  foo=; bar=baz  foo=  (with a for foo and b for the rest) *)
CookieExamples ==
  {<<97, Equality, Quote, Semicolon, Space, 98, Equality, 98>>,
   <<97, Equality, Semicolon, Space, 98, Equality, 98>>,
   <<97, Equality>>}

InitCookie ==
  /\ \/ /\ gen = <<>>
        /\ \E data \in BoundedSeq(CookieAlphabet, MaxLen) \cup CookieExamples :
             lexer = NewScanner(data)
     \/ /\ gen \in GeneratedCookies
        /\ lexer = NewScanner(RenderCookie(gen, 1))
  /\ \E validate \in BOOLEAN : frame = CookieFrame(validate)
  /\ last = NoCall
  /\ pc = "cookie"
  /\ result = FALSE
  /\ calls = <<>>

(* What a case of the switch leaves behind. *)
CookieAfter(r) ==
  /\ lexer' = r.l
  /\ frame' = r.f
  /\ pc' = IF r.panic THEN "panic" ELSE IF r.return THEN "done" ELSE "cookie"
  /\ result' = IF r.return THEN r.value ELSE result

CookieToken ==
  /\ pc = "cookie"
  /\ LET n == ScannerNext(lexer)
     IN /\ n.ok /\ n.l.itemType = ItemToken
        /\ CookieAfter(ScanCookieToken(frame, n.l))
  /\ UNCHANGED <<last, calls, gen>>

CookieSeparator ==
  /\ pc = "cookie"
  /\ LET n == ScannerNext(lexer)
     IN /\ n.ok /\ n.l.itemType = ItemSeparator /\ frame.state = stateBeforeKey
        /\ CookieAfter(ScanCookieSeparator(frame, n.l))
  /\ UNCHANGED <<last, calls, gen>>

(* The `=` and the value after it: the callback runs on a pair accepted. *)
CookieValue ==
  /\ pc = "cookie"
  /\ \E it \in BOOLEAN :
       LET n == ScannerNext(lexer)
           r == ScanCookiePair(frame, n.l, it)
       IN /\ n.ok /\ n.l.itemType = ItemSeparator /\ frame.state # stateBeforeKey
          /\ CookieAfter(r)
          /\ calls' = IF r.call
                      THEN Append(calls, [key |-> r.f.key, value |-> r.f.value, it |-> it])
                      ELSE calls
  /\ UNCHANGED <<last, gen>>

(* A quoted-string or a comment item: no case of the switch takes it. *)
CookieOther ==
  /\ pc = "cookie"
  /\ LET n == ScannerNext(lexer)
     IN /\ n.ok /\ n.l.itemType \notin {ItemToken, ItemSeparator}
        /\ lexer' = n.l
  /\ UNCHANGED <<last, pc, frame, result, calls, gen>>

(* lexer.Next() returned false. *)
CookieEnd ==
  /\ pc = "cookie"
  /\ LET n == ScannerNext(lexer)
     IN /\ ~n.ok
        /\ lexer' = n.l
  /\ result' = ScanCookieReturn(frame)
  /\ pc' = "done"
  /\ UNCHANGED <<last, frame, calls, gen>>

NextCookie == CookieToken \/ CookieSeparator \/ CookieValue \/ CookieOther \/ CookieEnd

SpecCookie == InitCookie /\ [][NextCookie]_vars

(***************************************************************************)
(* ValidCookieValue called on any value, next to the scans of ScanCookie:  *)
(* last holds the value asked about and the answer.                        *)
(***************************************************************************)
MaxValueLen == 2

ValueOctets == {0, 1, 9, 31, Space, 33, Quote, Comma, Semicolon, Backslash, 97, 126, 127, 128, 255}

CookieValues == BoundedSeq(ValueOctets, MaxValueLen) \cup {<<c>> : c \in 0..255}

InitValues ==
  /\ lexer = NewScanner(<<>>)
  /\ last = NoCall
  /\ pc = "idle"
  /\ frame = CookieFrame(TRUE)
  /\ result = FALSE
  /\ calls = <<>>
  /\ gen = <<>>

CallValidCookieValue ==
  /\ pc = "idle"
  /\ \E value \in CookieValues :
       last' = Called("ValidCookieValue", value, ValidCookieValue(value), 0)
  /\ UNCHANGED <<lexer, pc, frame, result, calls, gen>>

NextValues == CallValidCookieValue \/ NextCookie

SpecValues == (InitValues \/ InitCookie) /\ [][NextValues]_vars

(***************************************************************************)
(* The cookie scanner under its default, lenient policy, as the design     *)
(* describes it (ScanCookie above has the strict behaviour only): the      *)
(* input is a run of pairs, each ending at the next `;`; a space after the *)
(* `;` is passed over when it is there; a pair whose name is no token or   *)
(* whose value (the wrapping quotes stripped) holds an octet that is no    *)
(* cookie-octet is skipped, any other is handed to the callback; the       *)
(* result is true.  One pair per step; lexer.pos is the cursor.            *)
(***************************************************************************)
(* The end of the pair that starts at p: the next `;` or the end of data. *)
LenientPairEnd(data, p) ==
  LET j == IndexByte(From(data, p), Semicolon)
  IN IF j = -1 THEN Len(data) ELSE p + j

(* LenientPairStart demanding nothing and skipping nothing after the `;`. *)
LenientPairStart_SpaceKept(data, p) == p

(* The first byte of the pair at the cursor p: after the space, if any. *)
LenientPairStart(data, p) ==
  IF p < Len(data) /\ At(data, p) = Space THEN p + 1 ELSE p

LenientName(pair) ==
  LET i == IndexByte(pair, Equality)
  IN IF i = -1 THEN pair ELSE Slice(pair, 0, i)

LenientValue(pair) ==
  LET i == IndexByte(pair, Equality)
      v == IF i = -1 THEN <<>> ELSE From(pair, i + 1)
  IN IF Len(v) >= 2 /\ v[1] = Quote /\ v[Len(v)] = Quote
     THEN SubSeq(v, 2, Len(v) - 1) ELSE v

LenientAccepts(pair) ==
  /\ IndexByte(pair, Equality) # -1
  /\ LenientName(pair) # <<>>
  /\ \A i \in 1..Len(LenientName(pair)) :
       LET c == LenientName(pair)[i]
       IN c <= 127 /\ ~(c <= 31 \/ c = 127)
          /\ c \notin {40, 41, 60, 62, 64, 44, 59, 58, 92, 34, 47, 91, 93, 63, 61, 123, 125, 32, 9}
  /\ \A i \in 1..Len(LenientValue(pair)) :
       LET c == LenientValue(pair)[i]
       IN ~(c <= 31 \/ c = 127) /\ c \notin {Space, Quote, Semicolon, Backslash, Comma}
          /\ c < 127

InitLenient ==
  /\ \/ /\ gen = <<>>
        /\ \E data \in BoundedSeq(CookieAlphabet, MaxLen) : lexer = NewScanner(data)
     \/ /\ gen \in GeneratedCookies
        /\ lexer = NewScanner(RenderCookie(gen, 1))
  /\ frame = CookieFrame(TRUE)
  /\ last = NoCall
  /\ pc = "lenient"
  /\ result = FALSE
  /\ calls = <<>>

(* The cursor after the pair that ends at e: past its `;`. *)
LenientAdvance(e) ==
  lexer' = [lexer EXCEPT !.pos = IF e < Len(lexer.data) THEN e + 1 ELSE e]

LenientDeliver ==
  /\ pc = "lenient" /\ lexer.pos < Len(lexer.data)
  /\ LET b == LenientPairStart(lexer.data, lexer.pos)
         e == LenientPairEnd(lexer.data, b)
         pair == Slice(lexer.data, b, e)
     IN /\ LenientAccepts(pair)
        /\ calls' = Append(calls, [key |-> LenientName(pair),
                                   value |-> LenientValue(pair), it |-> TRUE])
        /\ LenientAdvance(e)
  /\ UNCHANGED <<last, pc, frame, result, gen>>

LenientSkip ==
  /\ pc = "lenient" /\ lexer.pos < Len(lexer.data)
  /\ LET b == LenientPairStart(lexer.data, lexer.pos)
         e == LenientPairEnd(lexer.data, b)
         pair == Slice(lexer.data, b, e)
     IN /\ ~LenientAccepts(pair)
        /\ LenientAdvance(e)
  /\ UNCHANGED <<last, pc, frame, result, calls, gen>>

LenientEnd ==
  /\ pc = "lenient" /\ lexer.pos = Len(lexer.data)
  /\ pc' = "done"
  /\ result' = TRUE
  /\ UNCHANGED <<lexer, last, frame, calls, gen>>

NextLenient == LenientDeliver \/ LenientSkip \/ LenientEnd

SpecLenient == InitLenient /\ [][NextLenient]_vars

(***************************************************************************)
(* The octet table asked about any byte: the table is the one init() has   *)
(* filled, last holds the method asked, the byte and the answer.           *)
(***************************************************************************)
Octets == 0..255

InitOctets ==
  /\ lexer = NewScanner(<<>>)
  /\ last = NoCall
  /\ pc = "idle"
  /\ frame = OptionsFrame
  /\ result = FALSE
  /\ calls = <<>>
  /\ gen = <<>>

CallIsChar ==
  /\ \E c \in Octets : last' = Called("isChar", c, IsChar(c), 0)
  /\ UNCHANGED <<lexer, pc, frame, result, calls, gen>>

CallIsControl ==
  /\ \E c \in Octets : last' = Called("isControl", c, IsControl(c), 0)
  /\ UNCHANGED <<lexer, pc, frame, result, calls, gen>>

CallIsSeparator ==
  /\ \E c \in Octets : last' = Called("isSeparator", c, IsSeparator(c), 0)
  /\ UNCHANGED <<lexer, pc, frame, result, calls, gen>>

CallIsSpace ==
  /\ \E c \in Octets : last' = Called("isSpace", c, IsSpace(c), 0)
  /\ UNCHANGED <<lexer, pc, frame, result, calls, gen>>

CallIsToken ==
  /\ \E c \in Octets : last' = Called("isToken", c, IsToken(c), 0)
  /\ UNCHANGED <<lexer, pc, frame, result, calls, gen>>

NextOctets == CallIsChar \/ CallIsControl \/ CallIsSeparator \/ CallIsSpace \/ CallIsToken

SpecOctets == InitOctets /\ [][NextOctets]_vars

(***************************************************************************)
(* What the grammar says about a generated input: its tuples in document   *)
(* order, each with the zero-based ordinal of its top-level value.         *)
(***************************************************************************)
Ordinal(g, i) == Cardinality({j \in 1..i : g[j].piece = "key"}) - 1

KeyAt(g, i) ==
  LET k == CHOOSE j \in 1..i :
             g[j].piece = "key" /\ \A m \in (j + 1)..i : g[m].piece # "key"
  IN g[k].name

Tuple(index, key, param, value) ==
  [index |-> index, key |-> key, param |-> param, value |-> value]

RECURSIVE ExpectedFrom(_, _)
ExpectedFrom(g, i) ==
  IF i > Len(g) THEN <<>>
  ELSE (IF g[i].piece = "param"
        THEN <<Tuple(Ordinal(g, i), KeyAt(g, i), g[i].attr, g[i].val.text)>>
        ELSE IF g[i].piece = "key" /\ (i = Len(g) \/ g[i + 1].piece # "param")
        THEN <<Tuple(Ordinal(g, i), g[i].name, NilBytes, NilBytes)>>
        ELSE <<>>)
       \o ExpectedFrom(g, i + 1)

ExpectedTuples(g) == ExpectedFrom(g, 1)

(* The tuples the callback received, without the Controls answered. *)
Delivered ==
  [i \in 1..Len(calls) |->
     Tuple(calls[i].index, calls[i].key, calls[i].param, calls[i].value)]

AllContinue == \A i \in 1..Len(calls) : calls[i].ctl = ControlContinue

NoBreak == \A i \in 1..Len(calls) : calls[i].ctl # ControlBreak

SomeSkip == \E i \in 1..Len(calls) : calls[i].ctl = ControlSkip

Generated == gen # <<>>

Done == pc = "done"

RECURSIVE IsSubseq(_, _)
IsSubseq(a, b) ==
  IF a = <<>> THEN TRUE
  ELSE IF b = <<>> THEN FALSE
  ELSE IF a[1] = b[1] THEN IsSubseq(Tail(a), Tail(b))
  ELSE IsSubseq(a, Tail(b))

(* The escapes of the quoted values of a generated input. *)
HasEscape(g) ==
  \E i \in 1..Len(g) :
    /\ g[i].piece = "param"
    /\ g[i].val.kind = "quoted"
    /\ \E j \in 1..Len(g[i].val.text) : g[i].val.text[j] \in {Quote, Backslash}

(* C1: with a consumer that always answers Continue, ScanOptions on an     *)
(* input generated by the grammar returns true and delivers, in document   *)
(* order, exactly one tuple per parameter and one per key without          *)
(* parameters, each with the zero-based ordinal of its top-level value.    *)
C1_TuplePerParameter ==
  (Done /\ Generated /\ AllContinue)
    => (result = TRUE /\ Delivered = ExpectedTuples(gen))

(* What holds of C1: the same, for the inputs whose quoted values hold no  *)
(* escaped byte.                                                           *)
TuplePerParameterWithoutEscapes ==
  (Done /\ Generated /\ AllContinue /\ ~HasEscape(gen))
    => (result = TRUE /\ Delivered = ExpectedTuples(gen))

IndexKey(t) == [i \in 1..Len(t) |-> <<t[i].index, t[i].key>>]

(* C2: answering Skip does not change the index of later values: every     *)
(* tuple delivered carries its key with the ordinal that key's top-level   *)
(* value has in the list, as under a consumer that always continues.       *)
C2_SkipKeepsIndex ==
  (Done /\ Generated /\ NoBreak /\ SomeSkip)
    => IsSubseq(IndexKey(Delivered), IndexKey(ExpectedTuples(gen)))

(* The tuples the grammar lets a consumer see when it answers ctls to the  *)
(* tuples delivered to it in turn (Continue once ctls is used up): a Skip  *)
(* drops the later tuples of the same top-level value and nothing else.    *)
RECURSIVE DeliverFrom(_, _, _)
DeliverFrom(exp, ctls, skipped) ==
  IF exp = <<>> THEN <<>>
  ELSE IF exp[1].index \in skipped THEN DeliverFrom(Tail(exp), ctls, skipped)
  ELSE LET ctl == IF ctls = <<>> THEN ControlContinue ELSE ctls[1]
           rest == IF ctls = <<>> THEN <<>> ELSE Tail(ctls)
       IN <<exp[1]>> \o
          DeliverFrom(Tail(exp), rest,
                      IF ctl = ControlSkip THEN skipped \cup {exp[1].index} ELSE skipped)

Answers == [i \in 1..Len(calls) |-> calls[i].ctl]

KeyParam(t) == [i \in 1..Len(t) |-> <<t[i].key, t[i].param>>]

(* C3: after a Skip no further tuple of the skipped top-level value is     *)
(* delivered, and every later top-level value still has all its tuples     *)
(* delivered: scanning resumes after the top-level comma ending the value. *)
C3_SkipDropsOnlyCurrentValue ==
  (Done /\ Generated /\ NoBreak /\ SomeSkip)
    => KeyParam(Delivered) = KeyParam(DeliverFrom(ExpectedTuples(gen), Answers, {}))

RECURSIVE ItemsFrom(_)
ItemsFrom(l) ==
  LET n == ScannerNext(l)
  IN IF ~n.ok THEN (IF n.l.err THEN <<"err">> ELSE <<>>)
     ELSE <<(IF n.l.itemType = ItemToken THEN "token"
             ELSE IF n.l.itemType = ItemString THEN "string"
             ELSE IF n.l.itemType = ItemSeparator /\ n.l.itemBytes = <<Comma>> THEN ","
             ELSE IF n.l.itemType = ItemSeparator /\ n.l.itemBytes = <<Semicolon>> THEN ";"
             ELSE IF n.l.itemType = ItemSeparator /\ n.l.itemBytes = <<Equality>> THEN "="
             ELSE "other")>> \o ItemsFrom(n.l)

(* The grammar as an automaton over items: the places between items are    *)
(* "start" (a list element may begin), "key", "semi", "attr", "eq", "val". *)
GrammarMove(q, item) ==
  IF q = "start" /\ item = "," THEN "start"
  ELSE IF q = "start" /\ item = "token" THEN "key"
  ELSE IF q \in {"key", "attr", "val"} /\ item = "," THEN "start"
  ELSE IF q \in {"key", "attr", "val"} /\ item = ";" THEN "semi"
  ELSE IF q = "semi" /\ item = "token" THEN "attr"
  ELSE IF q = "attr" /\ item = "=" THEN "eq"
  ELSE IF q = "eq" /\ item \in {"token", "string"} THEN "val"
  ELSE "reject"

RECURSIVE GrammarRun(_, _)
GrammarRun(q, items) ==
  IF items = <<>> THEN q ELSE GrammarRun(GrammarMove(q, items[1]), Tail(items))

InGrammar(data) ==
  LET items == ItemsFrom(NewScanner(data))
  IN /\ GrammarRun("start", items) \in {"start", "key", "attr", "val"}
     /\ \E i \in 1..Len(items) : items[i] = "token"

(* C5: with a consumer that always answers Continue, ScanOptions returns   *)
(* true only for an input whose items are generated by the grammar.        *)
C5_TrueOnlyInGrammar ==
  (Done /\ AllContinue /\ result = TRUE) => InGrammar(lexer.data)

OnlyCommasAndSpace(data) == \A i \in 1..Len(data) : data[i] \in {Comma, Space}

(* C6: when ScanOptions returns true the callback was invoked at least     *)
(* once; an empty input, one of whitespace only and one of commas only     *)
(* give false and no callback.                                             *)
C6_TrueNeedsACall ==
  /\ (Done /\ result = TRUE) => Len(calls) >= 1
  /\ (Done /\ OnlyCommasAndSpace(lexer.data)) => (result = FALSE /\ calls = <<>>)

(* True returned after the single tuple of the input was flushed at its end. *)
C6_TrueAfterOneCall ==
  /\ Done /\ result = TRUE
  /\ Len(calls) = 1 /\ calls[1].ctl = ControlContinue
  /\ lexer.pos = Len(lexer.data)

(***************************************************************************)
(* The Scanner's claims.  ItemStart is the first byte of the item the last *)
(* call looked at: the cursor it found, moved past the leading whitespace. *)
(***************************************************************************)
ItemStart == last.pos + SkipSpace(From(lexer.data, last.pos))

NextAt(c) ==
  /\ last.op = "Next" /\ ~last.err
  /\ ItemStart < Len(lexer.data)
  /\ At(lexer.data, ItemStart) = c

(* C7: once the error flag is set it stays set, Next and NextOctet return  *)
(* false with no item, and no method moves the cursor.                     *)
C7_ErrorIsSticky ==
  (last.op # "New" /\ last.err)
    => /\ lexer.err
       /\ lexer.pos = last.pos
       /\ last.op \in {"Next", "NextOctet"}
            => (~last.ok /\ lexer.itemType = ItemUndef /\ lexer.itemBytes = NilBytes)

(* Skip called with the error flag set and its delimiter still ahead. *)
C7_SkipAfterError ==
  /\ last.op = "Skip" /\ last.err
  /\ IndexByte(From(lexer.data, last.pos), last.c) # -1

(* The text a quoted-string or comment body stands for: each backslash     *)
(* escapes the byte after it; and the number of escaped bytes in it.       *)
RECURSIVE Unescape(_)
Unescape(body) ==
  IF body = <<>> THEN <<>>
  ELSE IF body[1] = Backslash /\ Len(body) >= 2
       THEN <<body[2]>> \o Unescape(SubSeq(body, 3, Len(body)))
  ELSE <<body[1]>> \o Unescape(Tail(body))

RECURSIVE EscapeCount(_)
EscapeCount(body) ==
  IF body = <<>> THEN 0
  ELSE IF body[1] = Backslash /\ Len(body) >= 2
       THEN 1 + EscapeCount(SubSeq(body, 3, Len(body)))
  ELSE EscapeCount(Tail(body))

(* The body of the quoted-string or comment item just scanned. *)
ItemBody == Slice(lexer.data, ItemStart + 1, lexer.pos - 1)

(* C8: the bytes of an accepted quoted-string or comment are its body with *)
(* the k escaping backslashes removed and every escaped byte kept, so they *)
(* are k bytes shorter than the body.                                      *)
C8_UnescapedBytes ==
  (last.op = "Next" /\ last.ok /\ lexer.itemType \in {ItemString, ItemComment})
    => /\ lexer.itemBytes = Unescape(ItemBody)
       /\ Len(lexer.itemBytes) = Len(ItemBody) - EscapeCount(ItemBody)

(* The number of consecutive backslashes just before data[i], from lo on. *)
RECURSIVE BackslashRun(_, _, _)
BackslashRun(data, lo, i) ==
  IF i > lo /\ At(data, i - 1) = Backslash THEN 1 + BackslashRun(data, lo, i - 1) ELSE 0

(* The first quote at or after p that an even number of backslashes        *)
(* precedes, -1 when there is none.                                        *)
QuotedEnd(data, p) ==
  LET ends == {i \in p..(Len(data) - 1) :
                 At(data, i) = Quote /\ BackslashRun(data, p, i) % 2 = 0}
  IN IF ends = {} THEN -1 ELSE CHOOSE i \in ends : \A j \in ends : i <= j

(* C9: a quoted-string ends at the first closing quote preceded by zero or *)
(* an even number of backslashes; a quote preceded by an odd number of     *)
(* them is literal.                                                        *)
C9_QuotedStringEnd ==
  LET e == QuotedEnd(lexer.data, ItemStart + 1)
  IN (NextAt(Quote) /\ e # -1)
       => (last.ok /\ lexer.itemType = ItemString /\ lexer.pos = e + 1)

(* The `)` that brings the depth to zero, walking from data[i] at the      *)
(* given depth: an unescaped `(` adds one, an unescaped `)` takes one off, *)
(* a backslash escapes the byte after it; -1 when there is none.           *)
RECURSIVE CommentEndFrom(_, _, _)
CommentEndFrom(data, i, depth) ==
  IF i >= Len(data) THEN -1
  ELSE IF At(data, i) = Backslash THEN CommentEndFrom(data, i + 2, depth)
  ELSE IF At(data, i) = OpenParen THEN CommentEndFrom(data, i + 1, depth + 1)
  ELSE IF At(data, i) = CloseParen
       THEN (IF depth = 1 THEN i ELSE CommentEndFrom(data, i + 1, depth - 1))
  ELSE CommentEndFrom(data, i + 1, depth)

(* C10: a comment ends exactly at the `)` that brings the depth of nested  *)
(* parentheses to zero, for any nesting shape.                             *)
C10_CommentBalanced ==
  LET e == CommentEndFrom(lexer.data, ItemStart + 1, 1)
  IN (NextAt(OpenParen) /\ e # -1)
       => (last.ok /\ lexer.itemType = ItemComment /\ lexer.pos = e + 1)

(* What fails of C10 without any escape: two sibling comments inside one. *)
CommentBalancedWithoutEscapes ==
  (\A i \in 1..Len(lexer.data) : lexer.data[i] # Backslash) => C10_CommentBalanced

(***************************************************************************)
(* The classification of RFC 2616, section 2.2, and the linear whitespace  *)
(* LWS = [CRLF] 1*( SP | HT ) the claims speak of, written from the        *)
(* grammar and not from the table.                                         *)
(***************************************************************************)
RfcChar(c) == c <= 127

RfcControl(c) == c <= 31 \/ c = 127

RfcSeparators ==
  {40, 41, 60, 62, 64, 44, 59, 58, 92, 34, 47, 91, 93, 63, 61, 123, 125, 32, 9}

RfcSeparator(c) == c \in RfcSeparators

RfcSpace(c) == c = 32 \/ c = 9

RfcToken(c) == RfcChar(c) /\ ~RfcControl(c) /\ ~RfcSeparator(c) /\ ~RfcSpace(c)

(* The index of the first byte at or after p that no whitespace run covers. *)
RECURSIVE LwsEnd(_, _)
LwsEnd(data, p) ==
  IF p + 2 < Len(data) /\ At(data, p) = 13 /\ At(data, p + 1) = 10
     /\ RfcSpace(At(data, p + 2))
  THEN LwsEnd(data, p + 3)
  ELSE IF p < Len(data) /\ RfcSpace(At(data, p)) THEN LwsEnd(data, p + 1)
  ELSE p

(* The end of the maximal run of token bytes that starts at p. *)
RECURSIVE RfcTokenEnd(_, _)
RfcTokenEnd(data, p) ==
  IF p < Len(data) /\ RfcToken(At(data, p)) THEN RfcTokenEnd(data, p + 1) ELSE p

(* C11: a successful Next yields, after the leading whitespace, one item   *)
(* classified by its first byte: a double quote gives a quoted-string, an  *)
(* open parenthesis a comment, a token byte the token of the maximal run   *)
(* of token bytes, any other separator a separator item of that one byte.  *)
C11_ItemByFirstByte ==
  (last.op = "Next" /\ last.ok)
    => LET s == LwsEnd(lexer.data, last.pos)
           c == At(lexer.data, s)
           e == RfcTokenEnd(lexer.data, s)
       IN /\ s < Len(lexer.data)
          /\ lexer.itemType \in {ItemToken, ItemSeparator, ItemString, ItemComment}
          /\ c = Quote => lexer.itemType = ItemString
          /\ c = OpenParen => lexer.itemType = ItemComment
          /\ RfcToken(c)
               => /\ lexer.itemType = ItemToken
                  /\ lexer.itemBytes = Slice(lexer.data, s, e)
                  /\ lexer.pos = e
          /\ (RfcSeparator(c) /\ c \notin {Quote, OpenParen})
               => /\ lexer.itemType = ItemSeparator
                  /\ lexer.itemBytes = <<c>>
                  /\ lexer.pos = s + 1

(* Next has skipped whitespace and yielded a token of two bytes or more    *)
(* that a separator ends.                                                  *)
C11_TokenRunAfterSpace ==
  /\ last.op = "Next" /\ last.ok
  /\ LwsEnd(lexer.data, last.pos) > last.pos
  /\ lexer.itemType = ItemToken /\ Len(lexer.itemBytes) >= 2
  /\ lexer.pos < Len(lexer.data)

(* Next has yielded a separator item. *)
SeparatorItemYielded ==
  last.op = "Next" /\ last.ok /\ lexer.itemType = ItemSeparator

(* Next called without the error flag; LwsStart is the byte after the      *)
(* leading whitespace, as the grammar has it.                              *)
NextCalled == last.op = "Next" /\ ~last.err

LwsStart == LwsEnd(lexer.data, last.pos)

NextFailed == ~last.ok /\ lexer.err

(* The four cases of C12. *)
BareByteFails ==
  (NextCalled /\ LwsStart < Len(lexer.data)
     /\ At(lexer.data, LwsStart) \in {Backslash, CloseParen})
    => NextFailed

UnterminatedStringFails ==
  (NextCalled /\ LwsStart < Len(lexer.data) /\ At(lexer.data, LwsStart) = Quote
     /\ QuotedEnd(lexer.data, LwsStart + 1) = -1)
    => NextFailed

UnterminatedCommentFails ==
  (NextCalled /\ LwsStart < Len(lexer.data) /\ At(lexer.data, LwsStart) = OpenParen
     /\ CommentEndFrom(lexer.data, LwsStart + 1, 1) = -1)
    => NextFailed

CleanEndNoError ==
  (NextCalled /\ LwsStart = Len(lexer.data)) => (~last.ok /\ ~lexer.err)

(* C12: Next returns false and sets the error flag when the byte after the *)
(* whitespace is a bare backslash or `)`, or opens a quoted-string or a    *)
(* comment that no terminator matches; at the clean end of the input it    *)
(* returns false and leaves the error flag unset.                          *)
C12_ErrorOrCleanEnd ==
  /\ BareByteFails
  /\ UnterminatedStringFails
  /\ UnterminatedCommentFails
  /\ CleanEndNoError

(* The end of the input is clean when no tab is in the whitespace before it. *)
CleanEndNoErrorAfterSpaces ==
  (NextCalled /\ last.pos + SkipSpace(From(lexer.data, last.pos)) = Len(lexer.data))
    => (~last.ok /\ ~lexer.err)

(* C13: for every byte c the table answers IsChar iff c <= 127, IsControl  *)
(* iff c <= 31 or c = 127, IsSeparator iff c is one of the separators of   *)
(* RFC 2616 (SP and HT among them), IsSpace iff c is SP or HT, and IsToken *)
(* iff c is a char and neither a control, a separator nor a space.         *)
C13_OctetClasses ==
  /\ last.op = "isChar" => (last.ok <=> RfcChar(last.c))
  /\ last.op = "isControl" => (last.ok <=> RfcControl(last.c))
  /\ last.op = "isSeparator" => (last.ok <=> RfcSeparator(last.c))
  /\ last.op = "isSpace" => (last.ok <=> RfcSpace(last.c))
  /\ last.op = "isToken" => (last.ok <=> RfcToken(last.c))

(* The same for the bytes init() reaches, 32 and above. *)
OctetClassesFrom32 ==
  (last.op \in {"isChar", "isControl", "isSeparator", "isSpace", "isToken"}
     /\ last.c >= 32)
    => C13_OctetClasses

(* The token answer alone: it is right for every byte. *)
OctetTokenClass ==
  last.op = "isToken" => (last.ok <=> RfcToken(last.c))

(* Next called at the cursor p of a fresh Scanner over the same data. *)
NextFrom(p) == ScannerNext([NewScanner(lexer.data) EXCEPT !.pos = p])

(* C14: Next skips every leading run of linear whitespace (spaces, tabs,   *)
(* and CRLF followed by a space or a tab) before it classifies the item:   *)
(* it does what Next does at the first byte after the run, so the run      *)
(* yields no item and sets no error.                                       *)
C14_LwsSkipped ==
  NextCalled => (lexer = NextFrom(LwsStart).l /\ last.ok = NextFrom(LwsStart).ok)

(* The same for the runs that hold no tab. *)
LwsSkippedWithoutTabs ==
  (NextCalled /\ \A i \in last.pos..(LwsStart - 1) : At(lexer.data, i) # 9)
    => (lexer = NextFrom(LwsStart).l /\ last.ok = NextFrom(LwsStart).ok)

(* A fold CRLF SP in front of a token has been skipped. *)
FoldSkipped ==
  /\ NextCalled /\ last.ok /\ lexer.itemType = ItemToken
  /\ LwsStart >= last.pos + 3
  /\ At(lexer.data, last.pos) = 13

(***************************************************************************)
(* The list scanner's claims.  ScannedItems is the input as the Scanner    *)
(* cuts it into items (type and bytes), EndsInError whether the Scanner    *)
(* stops with its error flag set.                                          *)
(***************************************************************************)
RECURSIVE ScannedItems(_)
ScannedItems(l) ==
  LET n == ScannerNext(l)
  IN IF ~n.ok THEN <<>>
     ELSE <<[t |-> n.l.itemType, b |-> n.l.itemBytes]>> \o ScannedItems(n.l)

RECURSIVE EndsInError(_)
EndsInError(l) ==
  LET n == ScannerNext(l)
  IN IF ~n.ok THEN n.l.err ELSE EndsInError(n.l)

IsTokenItem(item) == item.t = ItemToken

IsCommaItem(item) == item.t = ItemSeparator /\ item.b = <<Comma>>

(* The items up to the first that is neither a token nor a comma. *)
RECURSIVE ListPrefix(_)
ListPrefix(items) ==
  IF items = <<>> THEN <<>>
  ELSE IF IsTokenItem(items[1]) \/ IsCommaItem(items[1])
       THEN <<items[1]>> \o ListPrefix(Tail(items))
  ELSE <<>>

RECURSIVE TokensOf(_)
TokensOf(items) ==
  IF items = <<>> THEN <<>>
  ELSE (IF IsTokenItem(items[1]) THEN <<items[1].b>> ELSE <<>>) \o TokensOf(Tail(items))

DeliveredTokens == [i \in 1..Len(calls) |-> calls[i].token]

AllTrue == \A i \in 1..Len(calls) : calls[i].it

C16_FalseStopsWithTrue ==
  ~AllTrue
    => /\ pc = "done" /\ result
       /\ \A i \in 1..(Len(calls) - 1) : calls[i].it
       /\ lexer.itemType = ItemToken
       /\ lexer.itemBytes = calls[Len(calls)].token
       /\ (lexer.data = <<97, Comma, 98, Comma, 99>> /\ Len(calls) = 2)
            => DeliveredTokens = <<<<97>>, <<98>>>>

(* The callback has answered false at b of a,b,c. *)
C16_FalseAtSecondToken ==
  /\ lexer.data = <<97, Comma, 98, Comma, 99>>
  /\ Len(calls) = 2 /\ calls[1].it /\ ~calls[2].it

(* The callback has answered false with a malformed rest ahead. *)
FalseBeforeMalformedRest ==
  /\ ~AllTrue /\ pc = "done"
  /\ EndsInError(lexer)

(* C17: when ScanTokens, its callback always answering true, returns true  *)
(* with the tokens T, ScanTokens over T joined with commas returns true    *)
(* and delivers exactly T.                                                 *)
C17_RescanYieldsSameTokens ==
  (gen # <<>> /\ pc = "done" /\ AllTrue)
    => (result /\ DeliveredTokens = gen)

(* The second scan of two or more tokens has returned. *)
C17_RescannedTwoTokens ==
  /\ gen # <<>> /\ pc = "done" /\ AllTrue
  /\ Len(gen) >= 2 /\ Len(calls) = Len(gen)
  /\ lexer.data = JoinCommas(gen)

(***************************************************************************)
(* The cookie scanner's claims, over the generated inputs.                 *)
(***************************************************************************)
DeliveredPairs == [i \in 1..Len(calls) |-> <<calls[i].key, calls[i].value>>]

PairsOf(g, k) == [i \in 1..k |-> <<g[i].name, g[i].value>>]

IsGoodPair(p) == p \in GoodPairs

(* The first piece that breaks the strict grammar: a trailing `;`, a pair  *)
(* whose `;` no space follows, or a pair with an invalid value; 0 if none. *)
IsViolation(g, i) ==
  \/ g[i].piece = "semicolon"
  \/ g[i].piece = "pair" /\ (~g[i].spaced \/ g[i].value \in InvalidValues)

FirstViolation(g) ==
  IF \E i \in 1..Len(g) : IsViolation(g, i)
  THEN CHOOSE i \in 1..Len(g) : IsViolation(g, i) /\ \A j \in 1..(i - 1) : ~IsViolation(g, j)
  ELSE 0

(* C18: on n >= 1 cookie-pairs name=value separated by `; `, the name a    *)
(* token and the value valid cookie-octets, wrapped in double quotes or    *)
(* not, the callback is run exactly n times with (name, value) in document *)
(* order, repeated names included, and the scan returns true.              *)
C18_PairPerCookie ==
  (gen # <<>> /\ \A i \in 1..Len(gen) : IsGoodPair(gen[i]))
    => /\ pc # "panic"
       /\ (pc = "done" /\ AllTrue)
            => (result /\ DeliveredPairs = PairsOf(gen, Len(gen)))

(* Three pairs, the first name repeated and a value in quotes, scanned. *)
C18_RepeatedNameScanned ==
  /\ gen # <<>> /\ \A i \in 1..Len(gen) : IsGoodPair(gen[i])
  /\ pc = "done" /\ AllTrue /\ Len(calls) = 3
  /\ calls[1].key = calls[3].key
  /\ \E i \in 1..3 : gen[i].quoted

(* C19: under the strict policy a `;` that no space follows, a trailing    *)
(* `;` or an invalid value fails the whole scan: the pairs completed       *)
(* before it have been delivered, none after it is, and the result is     *)
(* false.                                                                  *)
C19_StrictFailsAtViolation ==
  LET k == FirstViolation(gen)
  IN (gen # <<>> /\ frame.validate /\ k > 0 /\ \A i \in 1..(k - 1) : IsGoodPair(gen[i]))
       => /\ pc # "panic"
          /\ (pc = "done" /\ AllTrue)
               => (~result /\ DeliveredPairs = PairsOf(gen, k - 1))

(* The same when the invalid value holds no control byte. *)
StrictFailsWithoutControlBytes ==
  LET k == FirstViolation(gen)
  IN (gen # <<>> /\ frame.validate /\ k > 0
        /\ (\A i \in 1..(k - 1) : IsGoodPair(gen[i]))
        /\ (gen[k].piece = "pair" => gen[k].value # <<1>>))
       => /\ pc # "panic"
          /\ (pc = "done" /\ AllTrue)
               => (~result /\ DeliveredPairs = PairsOf(gen, k - 1))

(* The pairs of a generated input that are well formed: the name a token   *)
(* and the value valid.                                                    *)
RECURSIVE WellFormedPairs(_)
WellFormedPairs(g) ==
  IF g = <<>> THEN <<>>
  ELSE (IF g[1].piece = "pair" /\ g[1].name # MalformedName
           /\ g[1].value \notin InvalidValues
        THEN <<<<g[1].name, g[1].value>>>> ELSE <<>>)
       \o WellFormedPairs(Tail(g))

StrippedValue(v) ==
  IF Len(v) >= 2 /\ v[1] = Quote /\ v[Len(v)] = Quote
  THEN SubSeq(v, 2, Len(v) - 1) ELSE v

(* The scanner has just read a raw value with NextOctet. *)
ValueRead == pc # "lenient" /\ lexer.itemType = ItemOctet

QuoteThenPair == <<97, Equality, Quote, Semicolon, Space, 98, Equality, 98>>

(* C21: the cookie scanner strips the first and the last byte of a value   *)
(* exactly when a matching pair of double quotes wraps it (two bytes or    *)
(* more), with nothing unescaped inside, and delivers every other value    *)
(* unchanged; with validation disabled the value `"` is delivered as `"`:  *)
(* foo="; bar=baz yields (foo, ") and (bar, baz).                          *)
C21_QuotesStripped ==
  /\ ValueRead
       => /\ pc # "panic"
          /\ frame.value = StrippedValue(lexer.itemBytes)
          /\ ~frame.validate
               => (calls # <<>> /\ calls[Len(calls)].value = StrippedValue(lexer.itemBytes))
  /\ (lexer.data = QuoteThenPair /\ ~frame.validate /\ AllTrue)
       => /\ pc # "panic"
          /\ pc = "done"
               => DeliveredPairs = <<<<TokenA, <<Quote>>>>, <<TokenB, <<98>>>>>>

(* The same for the raw values of two bytes or more. *)
QuotesStrippedOfLongerValues ==
  (ValueRead /\ Len(lexer.itemBytes) >= 2)
    => /\ pc # "panic"
       /\ frame.value = StrippedValue(lexer.itemBytes)
       /\ ~frame.validate
            => (calls # <<>> /\ calls[Len(calls)].value = StrippedValue(lexer.itemBytes))

(* A value in quotes has been stripped and delivered. *)
QuotedValueDelivered ==
  /\ ValueRead /\ pc = "cookie"
  /\ Len(lexer.itemBytes) >= 3 /\ frame.value # lexer.itemBytes

(* The same for the raw values of one byte: the value `"` is among them. *)
QuotesStrippedOfOneByteValues ==
  (ValueRead /\ Len(lexer.itemBytes) = 1)
    => /\ pc # "panic"
       /\ frame.value = StrippedValue(lexer.itemBytes)

(* An octet a cookie value must not hold: a control character, a space, a  *)
(* double quote, a semicolon, a backslash, a comma, or 0x7F and above.     *)
BadCookieOctet(c) ==
  \/ c <= 31 \/ c = 127
  \/ c = Space
  \/ c \in {Quote, Semicolon, Backslash, Comma}
  \/ c >= 127

NoBadOctet(value) == \A i \in 1..Len(value) : ~BadCookieOctet(value[i])

ValidAsked == last.op = "ValidCookieValue"

(* C22: ValidCookieValue(v) is true iff no byte of v is a control          *)
(* character, a space, `"`, `;`, a backslash, `,` or a byte >= 0x7F; and   *)
(* with validation enabled the scanner delivers no pair whose value holds  *)
(* such a byte.                                                            *)
C22_ValidCookieValue ==
  /\ ValidAsked => (last.ok <=> NoBadOctet(last.c))
  /\ (pc \in {"cookie", "done"} /\ frame.validate)
       => \A i \in 1..Len(calls) : NoBadOctet(calls[i].value)

(* The same for the values whose bytes are all 32 or above. *)
ValidCookieValueFrom32 ==
  /\ (ValidAsked /\ \A i \in 1..Len(last.c) : last.c[i] >= 32)
       => (last.ok <=> NoBadOctet(last.c))
  /\ (pc \in {"cookie", "done"} /\ frame.validate)
       => \A i \in 1..Len(calls) :
            (\A j \in 1..Len(calls[i].value) : calls[i].value[j] >= 32)
              => NoBadOctet(calls[i].value)

(* A value of two bytes with a bad second byte has been refused. *)
BadSecondOctetRefused ==
  /\ ValidAsked /\ Len(last.c) = 2 /\ ~last.ok
  /\ ~BadCookieOctet(last.c[1])

EmptyValueAlone == <<97, Equality>>

EmptyValueThenPair == <<97, Equality, Semicolon, Space, 98, Equality, 98>>

(* C23: a cookie-pair with an empty value is accepted: foo= yields (foo,   *)
(* empty) and true, foo=; bar=baz yields (foo, empty), (bar, baz) and true.*)
C23_EmptyValueAccepted ==
  /\ lexer.data \in {EmptyValueAlone, EmptyValueThenPair} => pc # "panic"
  /\ (lexer.data = EmptyValueAlone /\ pc = "done" /\ AllTrue)
       => (result /\ DeliveredPairs = <<<<TokenA, <<>>>>>>)
  /\ (lexer.data = EmptyValueThenPair /\ pc = "done" /\ AllTrue)
       => (result /\ DeliveredPairs = <<<<TokenA, <<>>>>, <<TokenB, <<98>>>>>>)

(* What the scan of foo= does: it returns false with no pair delivered. *)
EmptyValueAloneRefused ==
  (lexer.data = EmptyValueAlone /\ pc = "done") => (~result /\ calls = <<>>)

(* What the scan of foo=; bar=baz does: it never returns. *)
EmptyValueThenPairPanics ==
  lexer.data = EmptyValueThenPair => (pc # "done" /\ calls = <<>>)

EmptyValuePanicked == lexer.data = EmptyValueThenPair /\ pc = "panic"

(***************************************************************************)
(* Option and Parameters (httphead.go).  A pair holds two byte slices; a   *)
(* Parameters value holds its first InlinePairs pairs in arr and, once     *)
(* that is full, all of them in dyn.  dyn is a slice header: a copy of a   *)
(* Parameters value shares the pairs dyn points at, while arr is copied.   *)
(***************************************************************************)
InlinePairs == 8

(* The bytes of a slice, nil or not. *)
BytesOf(b) == IF b = NilBytes THEN <<>> ELSE b

BytesLen(b) == Len(BytesOf(b))

BytesEqual(a, b) == BytesOf(a) = BytesOf(b)

RECURSIVE BytesCompare(_, _)
BytesCompare(a, b) ==
  LET x == BytesOf(a)
      y == BytesOf(b)
  IN IF x = <<>> /\ y = <<>> THEN 0
     ELSE IF x = <<>> THEN -1
     ELSE IF y = <<>> THEN 1
     ELSE IF Head(x) < Head(y) THEN -1
     ELSE IF Head(x) > Head(y) THEN 1
     ELSE BytesCompare(Tail(x), Tail(y))

NilPair == [key |-> NilBytes, value |-> NilBytes]

NilDyn == [nil |-> TRUE, pairs |-> <<>>]

(* Parameters{}: the zero value. *)
NewParameters ==
  [pos |-> 0, bytes |-> 0, arr |-> [i \in 1..InlinePairs |-> NilPair], dyn |-> NilDyn]

(* Option{Name: name}. *)
NewOption(name) == [Name |-> name, Parameters |-> NewParameters]

ParametersData(p) ==
  IF ~p.dyn.nil THEN p.dyn.pairs ELSE SubSeq(p.arr, 1, p.pos)

(* A Set that migrates to an empty growable store, dropping arr. *)
ParametersSet_MigrationDropsInline(p, key, value) ==
  LET n == p.bytes + BytesLen(key) + BytesLen(value)
      kv == [key |-> key, value |-> value]
  IN IF p.pos < InlinePairs
     THEN [p EXCEPT !.bytes = n, !.arr[p.pos + 1] = kv, !.pos = p.pos + 1]
     ELSE [p EXCEPT !.bytes = n,
                    !.dyn = [nil |-> FALSE, pairs |-> Append(p.dyn.pairs, kv)]]

ParametersSet(p, key, value) ==
  LET n == p.bytes + BytesLen(key) + BytesLen(value)
      kv == [key |-> key, value |-> value]
  IN IF p.pos < InlinePairs
     THEN [p EXCEPT !.bytes = n, !.arr[p.pos + 1] = kv, !.pos = p.pos + 1]
     ELSE LET dyn == IF p.dyn.nil THEN p.arr ELSE p.dyn.pairs
          IN [p EXCEPT !.bytes = n,
                       !.dyn = [nil |-> FALSE, pairs |-> Append(dyn, kv)]]

(* ForEach with a callback that returns true: the pairs it is called with. *)
ParametersForEach(p) == ParametersData(p)

ParametersSize(p) == p.bytes

OptionSize(opt) == BytesLen(opt.Name) + opt.Parameters.bytes

(* pairs.Less *)
pairsLess(x, y) == BytesCompare(x.key, y.key) = -1

(* sort.Sort(pairs(s)) for the short slices met here (at most 12 pairs).  *)
(* The sort is not stable by contract; the two library builds differ: one *)
(* runs an insertion sort, the other a pass that swaps s[i] and s[i-6]    *)
(* when out of order and then the insertion sort.                         *)
SortBuilds == {"insertion", "shell"}

InsertPair(s, x) ==
  LET keep == {j \in 1..Len(s) : ~pairsLess(x, s[j])}
      k == IF keep = {} THEN 0 ELSE CHOOSE j \in keep : \A i \in keep : i <= j
  IN SubSeq(s, 1, k) \o <<x>> \o SubSeq(s, k + 1, Len(s))

RECURSIVE insertionSort(_)
insertionSort(s) ==
  IF Len(s) <= 1 THEN s
  ELSE InsertPair(insertionSort(SubSeq(s, 1, Len(s) - 1)), s[Len(s)])

shellPass(s) ==
  [j \in 1..Len(s) |->
     IF j + 6 <= Len(s) /\ pairsLess(s[j + 6], s[j]) THEN s[j + 6]
     ELSE IF j > 6 /\ pairsLess(s[j], s[j - 6]) THEN s[j - 6]
     ELSE s[j]]

SortPairs(build, s) ==
  IF build = "shell" THEN insertionSort(shellPass(s)) ELSE insertionSort(s)

(* a.Equal(b): the result, and the operands as the caller sees them after *)
(* the call.  a and b are copies, so sorting a.arr[:a.pos] sorts the copy; *)
(* a.dyn is the caller's store, so sorting it sorts the caller's pairs.    *)
ParametersEqual(build, a, b) ==
  IF a.dyn.nil # b.dyn.nil THEN [eq |-> FALSE, a |-> a, b |-> b]
  ELSE
    LET ad == ParametersData(a)
        bd == ParametersData(b)
    IN IF Len(ad) # Len(bd) THEN [eq |-> FALSE, a |-> a, b |-> b]
       ELSE
         LET as == SortPairs(build, ad)
             bs == SortPairs(build, bd)
         IN [eq |-> \A i \in 1..Len(as) :
                      /\ BytesEqual(as[i].key, bs[i].key)
                      /\ BytesEqual(as[i].value, bs[i].value),
             a |-> IF a.dyn.nil THEN a ELSE [a EXCEPT !.dyn.pairs = as],
             b |-> IF b.dyn.nil THEN b ELSE [b EXCEPT !.dyn.pairs = bs]]

OptionEqual(build, a, b) ==
  IF BytesEqual(a.Name, b.Name)
  THEN LET r == ParametersEqual(build, a.Parameters, b.Parameters)
       IN [eq |-> r.eq,
           a |-> [a EXCEPT !.Parameters = r.a],
           b |-> [b EXCEPT !.Parameters = r.b]]
  ELSE [eq |-> FALSE, a |-> a, b |-> b]

(***************************************************************************)
(* Copy.  The destination p is a buffer; a slice of it is a span           *)
(* [lo |-> i, hi |-> j] standing for p[i:j].  dst is p[off:].              *)
(***************************************************************************)
Min(x, y) == IF x <= y THEN x ELSE y

(* copy(p[off:], src): the buffer after it, n bytes having been copied. *)
WriteAt(p, off, src, n) ==
  [i \in 1..Len(p) |-> IF off < i /\ i <= off + n THEN src[i - off] ELSE p[i]]

(* A pair.copy that hands back dst as it got it. *)
paircopy_DstNotAdvanced(kv, p, off) ==
  LET room == Len(p) - off
      n == Min(room, BytesLen(kv.key))
      m == n + Min(room - n, BytesLen(kv.value))
      p1 == WriteAt(p, off, BytesOf(kv.key), n)
      p2 == WriteAt(p1, off + n, BytesOf(kv.value), m - n)
  IN [pair |-> [key |-> [lo |-> off, hi |-> off + n],
                value |-> [lo |-> off + n, hi |-> off + m]],
      p |-> p2, off |-> off]

(* pair.copy(dst) *)
paircopy(kv, p, off) ==
  LET room == Len(p) - off
      n == Min(room, BytesLen(kv.key))
      m == n + Min(room - n, BytesLen(kv.value))
      p1 == WriteAt(p, off, BytesOf(kv.key), n)
      p2 == WriteAt(p1, off + n, BytesOf(kv.value), m - n)
  IN [pair |-> [key |-> [lo |-> off, hi |-> off + n],
                value |-> [lo |-> off + n, hi |-> off + m]],
      p |-> p2, off |-> off + m]

(* The range loops of Parameters.Copy over a list of pairs. *)
RECURSIVE copyPairs(_, _, _)
copyPairs(list, p, off) ==
  IF list = <<>> THEN [pairs |-> <<>>, p |-> p, off |-> off]
  ELSE LET c == paircopy(Head(list), p, off)
           r == copyPairs(Tail(list), c.p, c.off)
       IN [pairs |-> <<c.pair>> \o r.pairs, p |-> r.p, off |-> r.off]

ParametersCopy(params, p, off) ==
  IF ~params.dyn.nil
  THEN LET r == copyPairs(params.dyn.pairs, p, off)
       IN [ret |-> [pos |-> params.pos, bytes |-> params.bytes,
                    arr |-> [i \in 1..InlinePairs |-> NilPair],
                    dyn |-> [nil |-> FALSE, pairs |-> r.pairs]],
           p |-> r.p, off |-> r.off]
  ELSE LET r == copyPairs(params.arr, p, off)
       IN [ret |-> [pos |-> params.pos, bytes |-> params.bytes,
                    arr |-> r.pairs, dyn |-> NilDyn],
           p |-> r.p, off |-> r.off]

(* opt.Copy(p): the Option of spans and the buffer they lie in. *)
OptionCopy(opt, p) ==
  LET n == Min(Len(p), BytesLen(opt.Name))
      p1 == WriteAt(p, 0, BytesOf(opt.Name), n)
      r == ParametersCopy(opt.Parameters, p1, n)
  IN [opt |-> [Name |-> [lo |-> 0, hi |-> n], Parameters |-> r.ret], p |-> r.p]

(* Reading a copied Option: each span gives the bytes of p it covers. *)
Load(p, span) == Slice(p, span.lo, span.hi)

LoadPair(p, kv) == [key |-> Load(p, kv.key), value |-> Load(p, kv.value)]

LoadOption(p, opt) ==
  [Name |-> Load(p, opt.Name),
   Parameters |->
     IF opt.Parameters.dyn.nil
     THEN [opt.Parameters EXCEPT
             !.arr = [i \in 1..InlinePairs |-> LoadPair(p, opt.Parameters.arr[i])]]
     ELSE [opt.Parameters EXCEPT
             !.dyn.pairs = [i \in 1..Len(opt.Parameters.dyn.pairs) |->
                              LoadPair(p, opt.Parameters.dyn.pairs[i])]]]

(* memset(b, 'x') over a slice, and over every slice an Option holds. *)
Memset(b) == IF b = NilBytes THEN NilBytes ELSE [i \in 1..Len(b) |-> 120]

MemsetPair(kv) == [key |-> Memset(kv.key), value |-> Memset(kv.value)]

MemsetOption(opt) ==
  [Name |-> Memset(opt.Name),
   Parameters |->
     [opt.Parameters EXCEPT
        !.arr = [i \in 1..InlinePairs |-> MemsetPair(opt.Parameters.arr[i])],
        !.dyn.pairs = [i \in 1..Len(opt.Parameters.dyn.pairs) |->
                         MemsetPair(opt.Parameters.dyn.pairs[i])]]]

(***************************************************************************)
(* SpecParams: two Options a and b are built by Set calls, first a, then   *)
(* b; then they are compared and visited, or a is copied into a buffer and *)
(* its own bytes are overwritten.  gen holds the pairs to set; calls logs  *)
(* the Set calls made.                                                     *)
(***************************************************************************)
MaxTail == 2

ParamPairs ==
  {[key |-> <<97>>, value |-> <<49>>],
   [key |-> <<97>>, value |-> <<50>>],
   [key |-> <<98>>, value |-> <<49, 50>>]}

PadPair == [key |-> <<98>>, value |-> <<49, 50>>]

(* Zero or InlinePairs - 1 pairs in front, so that the pairs after them *)
(* fill arr, or reach and pass its end.                                 *)
PadLens == {0, InlinePairs - 1}

ParamLists(pad) ==
  {[i \in 1..pad |-> PadPair] \o t : t \in BoundedSeq(ParamPairs, MaxTail)}

InitParams ==
  /\ lexer = NewScanner(<<>>)
  /\ last = NoCall
  /\ pc = "setA"
  /\ \E pad \in PadLens, build \in SortBuilds, name \in {TokenA, TokenB} :
       \E la \in ParamLists(pad), lb \in ParamLists(pad) :
         gen = [a |-> la, b |-> lb, build |-> build]
         /\ frame = [a |-> NewOption(TokenA), b |-> NewOption(name)]
  /\ result = FALSE
  /\ calls = <<>>

SetsOn(x) == SelectSeq(calls, LAMBDA c : c.on = x)

ParamsSetA ==
  /\ pc = "setA"
  /\ LET k == Len(SetsOn("a"))
     IN IF k < Len(gen.a)
        THEN /\ frame' = [frame EXCEPT !.a.Parameters =
                            ParametersSet(@, gen.a[k + 1].key, gen.a[k + 1].value)]
             /\ calls' = Append(calls, [on |-> "a", pair |-> gen.a[k + 1]])
             /\ pc' = pc
        ELSE /\ pc' = "setB"
             /\ UNCHANGED <<frame, calls>>
  /\ UNCHANGED <<lexer, last, result, gen>>

ParamsSetB ==
  /\ pc = "setB"
  /\ LET k == Len(SetsOn("b"))
     IN IF k < Len(gen.b)
        THEN /\ frame' = [frame EXCEPT !.b.Parameters =
                            ParametersSet(@, gen.b[k + 1].key, gen.b[k + 1].value)]
             /\ calls' = Append(calls, [on |-> "b", pair |-> gen.b[k + 1]])
             /\ pc' = pc
        ELSE /\ pc' = "built"
             /\ UNCHANGED <<frame, calls>>
  /\ UNCHANGED <<lexer, last, result, gen>>

(* a.Equal(b) on the two Options. *)
ParamsEqual ==
  /\ pc = "built"
  /\ LET r == OptionEqual(gen.build, frame.a, frame.b)
     IN /\ result' = r.eq
        /\ frame' = [frame EXCEPT !.a = r.a, !.b = r.b]
  /\ pc' = "compared"
  /\ UNCHANGED <<lexer, last, calls, gen>>

(* ForEach over a and over b, with a callback that returns true. *)
ParamsForEach ==
  /\ pc \in {"built", "compared"}
  /\ last' = [op |-> "ForEach", after |-> pc,
              a |-> ParametersForEach(frame.a.Parameters),
              b |-> ParametersForEach(frame.b.Parameters)]
  /\ pc' = "visited"
  /\ UNCHANGED <<lexer, frame, result, calls, gen>>

(* cp := a.Copy(p), p being a fresh buffer of a.Size() bytes or one more. *)
ParamsCopy ==
  /\ pc = "built"
  /\ \E extra \in 0..1 :
       LET p == [i \in 1..(OptionSize(frame.a) + extra) |-> 0]
           r == OptionCopy(frame.a, p)
       IN frame' = [a |-> frame.a, b |-> frame.b, cp |-> r.opt, p |-> r.p]
  /\ pc' = "copied"
  /\ UNCHANGED <<lexer, last, result, calls, gen>>

(* The bytes of a's name, keys and values are overwritten. *)
ParamsMemset ==
  /\ pc = "copied"
  /\ frame' = [frame EXCEPT !.a = MemsetOption(@)]
  /\ pc' = "overwritten"
  /\ UNCHANGED <<lexer, last, result, calls, gen>>

NextParams ==
  ParamsSetA \/ ParamsSetB \/ ParamsEqual \/ ParamsForEach \/ ParamsCopy \/ ParamsMemset

SpecParams == InitParams /\ [][NextParams]_vars

(***************************************************************************)
(* Claims about Parameters and Option.                                     *)
(***************************************************************************)
(* The pairs set so far on a or b, in the order of the Set calls. *)
PairsSetOn(x) == [i \in 1..Len(SetsOn(x)) |-> SetsOn(x)[i].pair]

CountOf(s, kv) == Cardinality({i \in 1..Len(s) : s[i] = kv})

SameMultiset(s, t) == \A kv \in ParamPairs : CountOf(s, kv) = CountOf(t, kv)

ParametersCompared == pc = "compared" /\ BytesEqual(frame.a.Name, frame.b.Name)

(* C24: Parameters.Equal is order-independent: two values built by Set     *)
(* from the same multiset of pairs, in whatever orders, compare Equal,     *)
(* also when pairs share a key and differ in value; two values whose       *)
(* multisets of pairs differ compare not Equal.                            *)
C24_EqualIsOrderIndependent ==
  ParametersCompared => (result <=> SameMultiset(gen.a, gen.b))

(* The half that holds: values of different multisets are not Equal. *)
DifferentMultisetsUnequal ==
  (ParametersCompared /\ ~SameMultiset(gen.a, gen.b)) => ~result

(* Where it fails: only when one key was set to two different values. *)
UnequalOnlyWithRepeatedKey ==
  (ParametersCompared /\ SameMultiset(gen.a, gen.b) /\ ~result)
    => \E i, j \in 1..Len(gen.a) :
         gen.a[i].key = gen.a[j].key /\ gen.a[i].value # gen.a[j].value

(* a=1 and a=2 set in the two orders have been compared and found unequal. *)
SwappedRepeatedKeyUnequal ==
  /\ ParametersCompared /\ ~result
  /\ gen.a = <<[key |-> <<97>>, value |-> <<49>>], [key |-> <<97>>, value |-> <<50>>]>>
  /\ gen.b = <<[key |-> <<97>>, value |-> <<50>>], [key |-> <<97>>, value |-> <<49>>]>>

VisitedAfterEqual == pc = "visited" /\ last.op = "ForEach" /\ last.after = "compared"

(* C25: Equal does not change its operands: ForEach over a and over b      *)
(* after a.Equal(b) yields the pairs in the order they were set, for       *)
(* values of at most 8 pairs and for values of more than 8 pairs.          *)
C25_EqualLeavesOperands ==
  VisitedAfterEqual => (last.a = PairsSetOn("a") /\ last.b = PairsSetOn("b"))

(* It holds for operands that keep their pairs inline. *)
EqualLeavesInlineOperands ==
  (VisitedAfterEqual /\ frame.a.Parameters.dyn.nil /\ frame.b.Parameters.dyn.nil)
    => (last.a = PairsSetOn("a") /\ last.b = PairsSetOn("b"))

(* What Equal does to the growable stores of two Options of one name and *)
(* one length: it leaves them sorted by key.                             *)
EqualSortsStores ==
  (VisitedAfterEqual /\ BytesEqual(frame.a.Name, frame.b.Name)
     /\ ~frame.a.Parameters.dyn.nil /\ ~frame.b.Parameters.dyn.nil
     /\ Len(last.a) = Len(last.b))
    => \A i \in 1..(Len(last.a) - 1) :
         /\ ~pairsLess(last.a[i + 1], last.a[i])
         /\ ~pairsLess(last.b[i + 1], last.b[i])

(* A value of more than 8 pairs is visited in another order after Equal. *)
StoreReorderedByEqual ==
  /\ VisitedAfterEqual /\ Len(last.a) > InlinePairs
  /\ last.a # PairsSetOn("a")

(* No Equal has run yet: the values are as the Set calls left them. *)
OnlySetSoFar == pc \in {"setA", "setB", "built"} \/ (pc = "visited" /\ last.after = "built")

(* Where a value built by the logged Set calls keeps its pairs. *)
StoredAsSet(params, set) ==
  /\ ParametersForEach(params) = set
  /\ Len(set) <= InlinePairs =>
       (params.dyn.nil /\ params.pos = Len(set) /\ SubSeq(params.arr, 1, Len(set)) = set)
  /\ Len(set) > InlinePairs => (~params.dyn.nil /\ params.dyn.pairs = set)

(* A step that sets one more pair on a value already in the growable *)
(* store appends to that store.                                      *)
AppendsToStore(params, after) ==
  ~params.dyn.nil =>
     /\ ~after.dyn.nil
     /\ after.dyn.pairs \in {params.dyn.pairs} \cup
          {Append(params.dyn.pairs, kv) : kv \in ParamPairs}

(* The values hold the pairs set, as long as only Set has run. *)
SetPairsStored ==
  OnlySetSoFar =>
    /\ StoredAsSet(frame.a.Parameters, PairsSetOn("a"))
    /\ StoredAsSet(frame.b.Parameters, PairsSetOn("b"))
    /\ pc = "visited" => (last.a = PairsSetOn("a") /\ last.b = PairsSetOn("b"))

SetAppendsToStore ==
  pc \in {"setA", "setB"} =>
    /\ AppendsToStore(frame.a.Parameters, frame'.a.Parameters)
    /\ AppendsToStore(frame.b.Parameters, frame'.b.Parameters)

RECURSIVE PairBytes(_)
PairBytes(s) ==
  IF s = <<>> THEN 0
  ELSE Len(Head(s).key) + Len(Head(s).value) + PairBytes(Tail(s))

InsideBuffer(span) == 0 <= span.lo /\ span.lo <= span.hi /\ span.hi <= Len(frame.p)

(* The copy of a, read through the buffer it was copied into. *)
CopyRead == LoadOption(frame.p, frame.cp)

(* C27: Size() of an Option is len(Name) plus the key and value lengths of *)
(* all pairs set; Copy(p), p holding at least Size() bytes, gives an       *)
(* Option Equal to the original with the same pairs in the same order,     *)
(* every slice of which lies inside p, and overwriting the bytes of the    *)
(* original afterwards leaves the copy as it was.                          *)
C27_SizeAndCopy ==
  /\ OptionSize(frame.a) = Len(frame.a.Name) + PairBytes(PairsSetOn("a"))
  /\ OptionSize(frame.b) = Len(frame.b.Name) + PairBytes(PairsSetOn("b"))
  /\ pc = "copied" =>
       /\ OptionEqual(gen.build, CopyRead, frame.a).eq
       /\ CopyRead.Name = frame.a.Name
       /\ ParametersForEach(CopyRead.Parameters) = ParametersForEach(frame.a.Parameters)
  /\ pc \in {"copied", "overwritten"} =>
       /\ InsideBuffer(frame.cp.Name)
       /\ \A kv \in {ParametersData(frame.cp.Parameters)[i] :
                       i \in 1..Len(ParametersData(frame.cp.Parameters))} :
            InsideBuffer(kv.key) /\ InsideBuffer(kv.value)
       /\ CopyRead.Name = TokenA
       /\ ParametersForEach(CopyRead.Parameters) = PairsSetOn("a")

(* An Option of more than 8 pairs was copied and then overwritten. *)
CopiedStoreOutlivesOriginal ==
  /\ pc = "overwritten"
  /\ Len(PairsSetOn("a")) > InlinePairs
  /\ frame.a.Name = <<120>>
  /\ ParametersForEach(frame.a.Parameters) # PairsSetOn("a")
  /\ ParametersForEach(CopyRead.Parameters) = PairsSetOn("a")

(* The same for an Option whose pairs are inline. *)
CopiedInlineOutlivesOriginal ==
  /\ pc = "overwritten"
  /\ Len(PairsSetOn("a")) = 2
  /\ frame.a.Parameters.dyn.nil
  /\ ParametersForEach(frame.a.Parameters) # PairsSetOn("a")
  /\ ParametersForEach(CopyRead.Parameters) = PairsSetOn("a")

(***************************************************************************)
(* ParseOptions (httphead.go): ScanOptions with a callback that collects   *)
(* Options.  The closure holds index, i and options.                       *)
(***************************************************************************)
(* index := -1; var i int; options as given. *)
ParseOptionsClosure(options) == [index |-> -1, i |-> 0, options |-> options]

(* The callback of ParseOptions; it answers ControlContinue. *)
ParseOptionsCallback(st, idx, name, attr, val) ==
  LET st1 == IF idx # st.index
             THEN [st EXCEPT !.index = idx, !.i = Len(st.options),
                             !.options = Append(st.options, NewOption(name))]
             ELSE st
  IN IF attr # NilBytes
     THEN [st1 EXCEPT !.options[st1.i + 1].Parameters = ParametersSet(@, attr, val)]
     ELSE st1

(* `return options, ScanOptions(...)`: the language leaves open whether    *)
(* the operand options is read before or after the call that appends to    *)
(* it, so a build returns the slice as given or as the callback left it.   *)
ReturnOrders == {"callFirst", "operandFirst"}

ParseOptionsReturn(order, given, st, ok) ==
  [options |-> IF order = "operandFirst" THEN given ELSE st.options, ok |-> ok]

(***************************************************************************)
(* SpecParse: ParseOptions over a raw or a generated input, appending to   *)
(* an empty slice or to one that holds an Option already.  frame.scan are  *)
(* the locals of ScanOptions, frame.cb the closure.                        *)
(***************************************************************************)
ParseAlphabet == {97, Comma, Semicolon, Equality}

GivenOptions ==
  {<<>>, <<[NewOption(TokenB) EXCEPT !.Parameters = ParametersSet(@, TokenA, TokenB)]>>}

(* What ScanOptions returned to its caller, kept in last. *)
Returned(ok) ==
  [op |-> "ScanOptions", c |-> 0, ok |-> ok, byte |-> 0, pos |-> 0, err |-> FALSE]

InitParse ==
  /\ \/ /\ gen = <<>>
        /\ \E data \in BoundedSeq(ParseAlphabet, MaxLen) : lexer = NewScanner(data)
     \/ /\ gen \in GeneratedLists
        /\ lexer = NewScanner(Render(gen, 1))
  /\ last = NoCall
  /\ pc = "scan"
  /\ \E given \in GivenOptions, order \in ReturnOrders :
       frame = [scan |-> OptionsFrame, cb |-> ParseOptionsClosure(given),
                given |-> given, order |-> order]
  /\ result = [options |-> <<>>, ok |-> FALSE]
  /\ calls = <<>>

ParseItem ==
  /\ pc = "scan"
  /\ \E n \in {ScannerNext(lexer)} :
       \E sw \in {ScanOptionsSwitch(frame.scan, n.l.itemType, n.l.itemBytes)} :
         /\ n.ok /\ ~sw.reject /\ ~sw.call
         /\ lexer' = n.l
         /\ frame' = [frame EXCEPT !.scan = sw.f]
  /\ UNCHANGED <<last, pc, result, calls, gen>>

ParseMalformed ==
  /\ pc = "scan"
  /\ \E n \in {ScannerNext(lexer)} :
       \E sw \in {ScanOptionsSwitch(frame.scan, n.l.itemType, n.l.itemBytes)} :
         /\ n.ok /\ sw.reject
         /\ lexer' = n.l
         /\ frame' = [frame EXCEPT !.scan = sw.f]
         /\ last' = Returned(FALSE)
         /\ result' = ParseOptionsReturn(frame.order, frame.given, frame.cb, FALSE)
  /\ pc' = "done"
  /\ UNCHANGED <<calls, gen>>

ParseCallback ==
  /\ pc = "scan"
  /\ \E n \in {ScannerNext(lexer)} :
       \E sw \in {ScanOptionsSwitch(frame.scan, n.l.itemType, n.l.itemBytes)} :
         /\ n.ok /\ ~sw.reject /\ sw.call
         /\ \E r \in {ScanOptionsControl(sw.f, n.l, ControlContinue, sw.growIndex)} :
              /\ calls' = Append(calls, OptionsCall(sw.f, ControlContinue))
              /\ lexer' = r.l
              /\ frame' = [frame EXCEPT
                             !.scan = r.f,
                             !.cb = ParseOptionsCallback(frame.cb, sw.f.index, sw.f.key,
                                                         sw.f.param, sw.f.value)]
  /\ UNCHANGED <<last, pc, result, gen>>

ParseEnd ==
  /\ pc = "scan"
  /\ \E n \in {ScannerNext(lexer)}, f \in {frame.scan} :
       /\ ~n.ok
       /\ \E cb \in {IF f.mustCall
                       THEN ParseOptionsCallback(frame.cb, f.index, f.key, f.param, f.value)
                       ELSE frame.cb} :
            /\ lexer' = n.l
            /\ calls' = IF f.mustCall
                        THEN Append(calls, OptionsCall(f, ControlContinue))
                        ELSE calls
            /\ frame' = [frame EXCEPT !.scan.ok = f.ok \/ f.mustCall, !.cb = cb]
            /\ last' = Returned(ScanOptionsReturn(f, n.l))
            /\ result' = ParseOptionsReturn(frame.order, frame.given, cb,
                                            ScanOptionsReturn(f, n.l))
  /\ pc' = "done"
  /\ UNCHANGED gen

NextParse == ParseItem \/ ParseMalformed \/ ParseCallback \/ ParseEnd

SpecParse == InitParse /\ [][NextParse]_vars

(***************************************************************************)
(* Claims about ParseOptions.                                              *)
(***************************************************************************)
(* An Option as a reader sees it: its name and its pairs as ForEach yields *)
(* them, nil and empty slices not told apart.                              *)
Seen(opt) ==
  [name |-> BytesOf(opt.Name),
   params |-> [i \in 1..Len(ParametersForEach(opt.Parameters)) |->
                 <<BytesOf(ParametersForEach(opt.Parameters)[i].key),
                   BytesOf(ParametersForEach(opt.Parameters)[i].value)>>]]

SeenAll(options) == [i \in 1..Len(options) |-> Seen(options[i])]

(* What the grammar says a generated input holds: one Option per key, with *)
(* the parameters that follow it.                                          *)
RECURSIVE OptionsOf(_, _, _)
OptionsOf(g, i, acc) ==
  IF i > Len(g) THEN acc
  ELSE IF g[i].piece = "key"
  THEN OptionsOf(g, i + 1, Append(acc, [name |-> g[i].name, params |-> <<>>]))
  ELSE IF g[i].piece = "param"
  THEN OptionsOf(g, i + 1,
         [acc EXCEPT ![Len(acc)].params =
            Append(@, <<g[i].attr, BytesOf(g[i].val.text)>>)])
  ELSE OptionsOf(g, i + 1, acc)

ExpectedOptions(g) == OptionsOf(g, 1, <<>>)

FooBarBaz ==
  <<[piece |-> "key", name |-> TokenA],
    [piece |-> "param", attr |-> TokenA, val |-> [kind |-> "token", text |-> TokenA]],
    [piece |-> "key", name |-> TokenB]>>

(* C28: ParseOptions appends one Option per top-level value of the input,  *)
(* in document order, each with the value's name and its parameters in     *)
(* document order (a bare attribute with an empty value, a bare key with   *)
(* no parameters), leaves the Options given unchanged and returns the flag *)
(* ScanOptions returned; foo;bar=1,baz gives {foo [bar:1]} {baz []}, true. *)
C28_OptionPerValue ==
  Done =>
    /\ result.ok = last.ok
    /\ Len(result.options) >= Len(frame.given)
    /\ SubSeq(result.options, 1, Len(frame.given)) = frame.given
    /\ Generated =>
         /\ result.ok
         /\ SeenAll(result.options) = SeenAll(frame.given) \o ExpectedOptions(gen)

(* What holds of it: the same, in a build that reads the operand options  *)
(* after the call and for inputs whose quoted values hold no escaped byte. *)
OptionPerValueWithoutEscapes ==
  (Done /\ frame.order = "callFirst") =>
    /\ result.ok = last.ok
    /\ SubSeq(result.options, 1, Len(frame.given)) = frame.given
    /\ (Generated /\ ~HasEscape(gen)) =>
         /\ result.ok
         /\ SeenAll(result.options) = SeenAll(frame.given) \o ExpectedOptions(gen)

(* In a build that reads the operand first the slice comes back as given. *)
OperandFirstReturnsGiven ==
  (Done /\ frame.order = "operandFirst") => result.options = frame.given

(* foo;bar=1,baz parsed (as a;a=a,b), the operand read after the call. *)
FooBarBazParsed ==
  /\ Done /\ gen = FooBarBaz /\ frame.order = "callFirst" /\ frame.given = <<>>
  /\ result.ok
  /\ SeenAll(result.options) =
       <<[name |-> TokenA, params |-> <<<<TokenA, TokenA>>>>],
         [name |-> TokenB, params |-> <<>>]>>

(* foo;bar=1,baz parsed, the operand read before the call. *)
FooBarBazLost ==
  /\ Done /\ gen = FooBarBaz /\ frame.order = "operandFirst" /\ frame.given = <<>>
  /\ result.ok /\ result.options = <<>>

(* A quoted backslash parsed: the parameter comes out without its value. *)
EscapedValueLost ==
  /\ Done /\ frame.order = "callFirst" /\ frame.given = <<>>
  /\ gen = <<[piece |-> "key", name |-> TokenA],
             [piece |-> "param", attr |-> TokenA,
              val |-> [kind |-> "quoted", text |-> <<Backslash>>]]>>
  /\ ~result.ok
  /\ SeenAll(result.options) = <<[name |-> TokenA, params |-> <<<<TokenA, <<>>>>>>]>>

(***************************************************************************)
(* OptionSelector.Select (httphead.go).  The closure holds current, has,   *)
(* index and options; Check is one of two filters.                         *)
(***************************************************************************)
SelectCopy == 1

SelectUnique == 2

(* s.Flags&flag != 0 *)
HasFlag(flags, flag) == (flags \div flag) % 2 = 1

(* defaultCheck, and a Check that refuses the Options named b. *)
CheckFns == {"all", "notB"}

Check(fn, opt) == fn = "all" \/ ~BytesEqual(opt.Name, TokenB)

SelectClosure(options) ==
  [current |-> NewOption(NilBytes), has |-> FALSE, index |-> -1, options |-> options]

(* current.Copy(alloc(current.Size())), read through its fresh buffer. *)
CopyOfCurrent(current) ==
  CHOOSE o \in {LoadOption(r.p, r.opt) :
                  r \in {OptionCopy(current, [i \in 1..OptionSize(current) |-> 0])}} : TRUE

(* `if has && check(current) { ... options = append(options, current) }` *)
(* has is cleared when clear is set (inside the callback).               *)
SelectAppend(st, flags, fn, clear) ==
  IF st.has /\ Check(fn, st.current)
  THEN [st EXCEPT !.options = Append(st.options,
                                IF HasFlag(flags, SelectCopy)
                                THEN CopyOfCurrent(st.current) ELSE st.current),
                  !.has = IF clear THEN FALSE ELSE st.has]
  ELSE st

(* The callback of Select: the closure after it and the Control answered. *)
SelectCallback(st, flags, fn, idx, name, attr, val) ==
  LET st1 == SelectAppend(st, flags, fn, TRUE)
      dup == /\ HasFlag(flags, SelectUnique)
             /\ \E i \in 1..Len(st1.options) : BytesEqual(st1.options[i].Name, name)
      st2 == IF idx # st.index
             THEN [st1 EXCEPT !.index = idx, !.current = NewOption(name), !.has = TRUE]
             ELSE st
  IN IF idx # st.index /\ dup THEN [st |-> st1, ctl |-> ControlSkip]
     ELSE [st |-> IF attr # NilBytes
                  THEN [st2 EXCEPT !.current.Parameters = ParametersSet(@, attr, val)]
                  ELSE st2,
           ctl |-> ControlContinue]

(* The statements of Select after ScanOptions: the Options returned. *)
SelectReturn(st, flags, fn) == SelectAppend(st, flags, fn, FALSE).options

(***************************************************************************)
(* SpecSelect: Select over a raw or a generated input, appending to an     *)
(* empty slice, under every combination of flags and both Checks.          *)
(* frame.scan are the locals of ScanOptions, frame.cb the closure.         *)
(***************************************************************************)
SelectFlags == {0, SelectCopy, SelectUnique, SelectCopy + SelectUnique}

InitSelect ==
  /\ \/ /\ gen = <<>>
        /\ \E data \in BoundedSeq(ParseAlphabet, MaxLen) : lexer = NewScanner(data)
     \/ /\ gen \in GeneratedLists
        /\ lexer = NewScanner(Render(gen, 1))
  /\ last = NoCall
  /\ pc = "scan"
  /\ \E flags \in SelectFlags, fn \in CheckFns :
       frame = [scan |-> OptionsFrame, cb |-> SelectClosure(<<>>),
                flags |-> flags, check |-> fn]
  /\ result = [options |-> <<>>, ok |-> FALSE]
  /\ calls = <<>>

SelectItem ==
  /\ pc = "scan"
  /\ \E n \in {ScannerNext(lexer)} :
       \E sw \in {ScanOptionsSwitch(frame.scan, n.l.itemType, n.l.itemBytes)} :
         /\ n.ok /\ ~sw.reject /\ ~sw.call
         /\ lexer' = n.l
         /\ frame' = [frame EXCEPT !.scan = sw.f]
  /\ UNCHANGED <<last, pc, result, calls, gen>>

SelectMalformed ==
  /\ pc = "scan"
  /\ \E n \in {ScannerNext(lexer)} :
       \E sw \in {ScanOptionsSwitch(frame.scan, n.l.itemType, n.l.itemBytes)} :
         /\ n.ok /\ sw.reject
         /\ lexer' = n.l
         /\ frame' = [frame EXCEPT !.scan = sw.f]
         /\ last' = Returned(FALSE)
         /\ result' = [options |-> SelectReturn(frame.cb, frame.flags, frame.check),
                       ok |-> FALSE]
  /\ pc' = "done"
  /\ UNCHANGED <<calls, gen>>

SelectDeliver ==
  /\ pc = "scan"
  /\ \E n \in {ScannerNext(lexer)} :
       \E sw \in {ScanOptionsSwitch(frame.scan, n.l.itemType, n.l.itemBytes)} :
         /\ n.ok /\ ~sw.reject /\ sw.call
         /\ \E cb \in {SelectCallback(frame.cb, frame.flags, frame.check,
                                       sw.f.index, sw.f.key, sw.f.param, sw.f.value)} :
              \E r \in {ScanOptionsControl(sw.f, n.l, cb.ctl, sw.growIndex)} :
                /\ calls' = Append(calls, OptionsCall(sw.f, cb.ctl))
                /\ lexer' = r.l
                /\ frame' = [frame EXCEPT !.scan = r.f, !.cb = cb.st]
  /\ UNCHANGED <<last, pc, result, gen>>

SelectEnd ==
  /\ pc = "scan"
  /\ \E n \in {ScannerNext(lexer)}, f \in {frame.scan} :
       /\ ~n.ok
       /\ \E cb \in {IF f.mustCall
                       THEN SelectCallback(frame.cb, frame.flags, frame.check,
                                           f.index, f.key, f.param, f.value)
                       ELSE [st |-> frame.cb, ctl |-> ControlContinue]} :
            /\ lexer' = n.l
            /\ calls' = IF f.mustCall THEN Append(calls, OptionsCall(f, cb.ctl)) ELSE calls
            /\ frame' = [frame EXCEPT !.scan.ok = f.ok \/ f.mustCall, !.cb = cb.st]
            /\ last' = Returned(ScanOptionsReturn(f, n.l))
            /\ result' = [options |-> SelectReturn(cb.st, frame.flags, frame.check),
                          ok |-> ScanOptionsReturn(f, n.l)]
  /\ pc' = "done"
  /\ UNCHANGED gen

NextSelect == SelectItem \/ SelectMalformed \/ SelectDeliver \/ SelectEnd

SpecSelect == InitSelect /\ [][NextSelect]_vars

(***************************************************************************)
(* Claims about Select.                                                    *)
(***************************************************************************)
UniqueAcceptingAll == HasFlag(frame.flags, SelectUnique) /\ frame.check = "all"

(* The first Option of each name, in the order of first occurrence. *)
RECURSIVE FirstOfEachName(_, _)
FirstOfEachName(options, acc) ==
  IF options = <<>> THEN acc
  ELSE FirstOfEachName(Tail(options),
         IF \E i \in 1..Len(acc) : acc[i].name = Head(options).name
         THEN acc ELSE Append(acc, Head(options)))

(* C29: Select with SelectUnique and a Check that accepts everything, on a *)
(* well-formed input, appends for every distinct name among the top-level  *)
(* values exactly one Option, the first occurrence of the name with its    *)
(* parameters, in the order of first occurrence; later duplicates are      *)
(* dropped and no Option of a name not yet selected is lost.               *)
C29_FirstOfEachNameSelected ==
  (Done /\ Generated /\ UniqueAcceptingAll) =>
    /\ result.ok
    /\ SeenAll(result.options) = FirstOfEachName(ExpectedOptions(gen), <<>>)

(* foo;a=1,foo;a=2, as a;a=",",a;a=a *)
FooFoo ==
  <<[piece |-> "key", name |-> TokenA],
    [piece |-> "param", attr |-> TokenA, val |-> [kind |-> "quoted", text |-> <<Comma>>]],
    [piece |-> "key", name |-> TokenA],
    [piece |-> "param", attr |-> TokenA, val |-> [kind |-> "token", text |-> TokenA]]>>

(* foo,foo,bar, as a,a,b *)
FooFooBar ==
  <<[piece |-> "key", name |-> TokenA], [piece |-> "key", name |-> TokenA],
    [piece |-> "key", name |-> TokenB]>>

(* What holds of it, escaped bytes apart: the Options selected are first  *)
(* occurrences, each with its parameters, in the order of first           *)
(* occurrence, and no name is selected twice; some may be missing, and    *)
(* the flag may be false.                                                 *)
UniqueSelectsFirstOccurrences ==
  (Done /\ Generated /\ UniqueAcceptingAll /\ ~HasEscape(gen)) =>
    IsSubseq(SeenAll(result.options), FirstOfEachName(ExpectedOptions(gen), <<>>))

(* a,a,a;a="," : the Skip at the second a resumes inside the quoted-string. *)
SkipResumesInsideString ==
  /\ Done /\ UniqueAcceptingAll /\ ~result.ok
  /\ lexer.data = <<97, Comma, 97, Comma, 97, Semicolon, 97, Equality, Quote, Comma, Quote>>

(* The claim's example: the second foo is dropped. *)
FooFooSelectedOnce ==
  /\ Done /\ gen = FooFoo /\ UniqueAcceptingAll
  /\ result.ok
  /\ SeenAll(result.options) = <<[name |-> TokenA, params |-> <<<<TokenA, <<Comma>>>>>>]>>

(* foo,foo,bar: bar, not selected before, is lost with the second foo. *)
FooFooBarLosesBar ==
  /\ Done /\ gen = FooFooBar /\ UniqueAcceptingAll
  /\ result.ok
  /\ SeenAll(result.options) = <<[name |-> TokenA, params |-> <<>>]>>

(***************************************************************************)
(* SpecControl: ScanOptions with a consumer that may answer a value that   *)
(* is none of the three Controls, for a tuple delivered in the loop or for *)
(* the one flushed at the end of the input.  pc is "panic" once the        *)
(* default case of the switch has run.                                     *)
(***************************************************************************)
(* Control(3): a value of the type with no constant. *)
ControlUnknown == 3

AnyControl == Controls \cup {ControlUnknown}

ControlCallback ==
  /\ pc = "scan"
  /\ \E n \in {ScannerNext(lexer)} :
       \E sw \in {ScanOptionsSwitch(frame, n.l.itemType, n.l.itemBytes)} :
         /\ n.ok /\ ~sw.reject /\ sw.call
         /\ \E ctl \in AnyControl :
              \E r \in {ScanOptionsControl(sw.f, n.l, ctl, sw.growIndex)} :
                /\ calls' = Append(calls, OptionsCall(sw.f, ctl))
                /\ lexer' = r.l
                /\ frame' = r.f
                /\ pc' = IF r.panic THEN "panic" ELSE IF r.return THEN "done" ELSE "scan"
                /\ result' = r.return
  /\ UNCHANGED <<last, gen>>

(* lexer.Next() returned false: the pending tuple is flushed, the answer   *)
(* of the callback is not looked at, and ScanOptions returns.              *)
ControlEnd ==
  /\ pc = "scan"
  /\ \E n \in {ScannerNext(lexer)}, ctl \in AnyControl :
       /\ ~n.ok
       /\ frame.mustCall \/ ctl = ControlContinue
       /\ lexer' = n.l
       /\ calls' = IF frame.mustCall
                   THEN Append(calls, OptionsCall(frame, ctl))
                   ELSE calls
       /\ frame' = [frame EXCEPT !.ok = frame.ok \/ frame.mustCall]
       /\ last' = [NoCall EXCEPT !.op = IF frame.mustCall THEN "flush" ELSE "end"]
       /\ result' = ScanOptionsReturn(frame, n.l)
  /\ pc' = "done"
  /\ UNCHANGED gen

NextControl == OptionsItem \/ OptionsMalformed \/ ControlCallback \/ ControlEnd

SpecControl == InitOptions /\ [][NextControl]_vars

(***************************************************************************)
(* Claims about the Control answered.                                      *)
(***************************************************************************)
UnknownAnswered == \E i \in 1..Len(calls) : calls[i].ctl \notin Controls

(* C30: when the consumer answers, for any tuple delivered, a Control that *)
(* is none of Continue, Break and Skip, ScanOptions panics: it neither     *)
(* returns a flag nor goes on scanning.                                    *)
C30_UnknownControlPanics == UnknownAnswered => pc = "panic"

(* What holds of it: an unknown Control answered in the loop panics at    *)
(* once; only the answer to the tuple flushed at the end goes unnoticed.  *)
UnknownControlPanicsInLoop ==
  /\ pc = "panic" => calls[Len(calls)].ctl \notin Controls
  /\ (UnknownAnswered /\ pc # "panic") =>
       /\ pc = "done" /\ last.op = "flush"
       /\ \A i \in 1..(Len(calls) - 1) : calls[i].ctl \in Controls

(* The loop has panicked on an unknown Control. *)
PanickedOnUnknown == pc = "panic" /\ Len(calls) = 2

(* An unknown Control for the flushed tuple: ScanOptions returned true. *)
UnknownAtFlushReturnsTrue ==
  /\ pc = "done" /\ result = TRUE
  /\ lexer.data = TokenA
  /\ calls = <<[index |-> 0, key |-> TokenA, param |-> NilBytes, value |-> NilBytes,
                ctl |-> ControlUnknown]>>

(***************************************************************************)
(* Claims about NextOctet.  last holds the call made, with the position    *)
(* and the error flag the Scanner had before it.                           *)
(***************************************************************************)
NextOctetCalled == last.op = "NextOctet" /\ ~last.err

(* Where the raw run that starts at position from ends: at the first c, *)
(* or at the end of the input.                                          *)
RunEnd(data, from, c) ==
  IF \E i \in from..(Len(data) - 1) : At(data, i) = c
  THEN CHOOSE i \in from..(Len(data) - 1) :
         At(data, i) = c /\ \A k \in from..(i - 1) : At(data, k) # c
  ELSE Len(data)

(* C31: NextOctet(d) yields a RawOctets item holding the raw bytes from    *)
(* the current position up to, not including, the first d (or up to the    *)
(* end of the input), and leaves d as the next unread byte.                *)
C31_NextOctetRawRun ==
  NextOctetCalled
    => /\ last.ok
       /\ lexer.itemType = ItemOctet
       /\ lexer.itemBytes = Slice(lexer.data, last.pos, RunEnd(lexer.data, last.pos, last.c))
       /\ lexer.pos = RunEnd(lexer.data, last.pos, last.c)

(* What NextOctet does: it skips the whitespace at the cursor first, and   *)
(* yields the run from there on, unless the input ends there.              *)
NextOctetAfterWhitespace ==
  NextOctetCalled
    => LET from == last.pos + SkipSpace(From(lexer.data, last.pos))
       IN IF from = Len(lexer.data)
          THEN ~last.ok /\ lexer.itemType = ItemUndef /\ lexer.pos = from
          ELSE /\ last.ok
               /\ lexer.itemType = ItemOctet
               /\ lexer.itemBytes = Slice(lexer.data, from, RunEnd(lexer.data, from, last.c))
               /\ lexer.pos = RunEnd(lexer.data, from, last.c)

(* A run was read up to a delimiter that occurs, with no whitespace before. *)
RunReadUpToDelimiter ==
  /\ NextOctetCalled /\ last.ok
  /\ lexer.pos < Len(lexer.data) /\ lexer.pos > last.pos
  /\ Slice(lexer.data, last.pos, lexer.pos) = lexer.itemBytes

(* The whitespace at the cursor is missing from the run. *)
NextOctetSkippedSpace ==
  /\ NextOctetCalled /\ last.ok
  /\ Len(lexer.itemBytes) < lexer.pos - last.pos

(* At the end of the input no empty run is yielded. *)
NextOctetAtEndFalse ==
  /\ NextOctetCalled /\ ~last.ok /\ last.pos = Len(lexer.data)

(***************************************************************************)
(* Claims about the index of the tuples ScanOptions delivers.  calls holds *)
(* the tuples delivered so far, each with the Control answered to it.      *)
(***************************************************************************)
(* C32: across the tuples of one ScanOptions call, whatever the callback   *)
(* answers and whatever the input, the index of the first tuple is zero,   *)
(* the index never decreases, and it grows by at most one between two      *)
(* consecutive tuples.                                                     *)
C32_IndexStartsAtZeroGrowsByOne ==
  /\ calls # <<>> => calls[1].index = 0
  /\ \A i \in 1..(Len(calls) - 1) :
       calls[i + 1].index - calls[i].index \in {0, 1}

(* Three tuples or more, one of them answered with ControlSkip, and the *)
(* index has grown.                                                     *)
IndexGrownAfterSkip ==
  /\ Len(calls) >= 3
  /\ \E i \in 1..(Len(calls) - 1) : calls[i].ctl = ControlSkip
  /\ calls[Len(calls)].index >= 1
  /\ \E i \in 1..(Len(calls) - 1) : calls[i + 1].index = calls[i].index

(***************************************************************************)
(* SpecIndex: ScanOptions with a callback that always answers              *)
(* ControlContinue, over inputs put together from keys, parameters, commas *)
(* and spaces.  A key handed to the callback is a slice of the input:      *)
(* last.pos holds where the slice now in `key` starts, and each entry of   *)
(* calls holds the tuple delivered and where its key starts (at).          *)
(***************************************************************************)
IndexPieces ==
  {<<97>>, <<Semicolon, 97>>, <<Semicolon, 97, Equality, 97>>,
   <<Semicolon, 97, Equality, Quote, Quote>>, <<Comma>>, <<Space>>}

IndexInputs == {Flatten(pieces) : pieces \in BoundedSeq(IndexPieces, MaxPieces)}

InitIndex ==
  /\ \E data \in IndexInputs : lexer = NewScanner(data)
  /\ last = [NoCall EXCEPT !.op = "key"]
  /\ pc = "scan"
  /\ frame = OptionsFrame
  /\ result = FALSE
  /\ calls = <<>>
  /\ gen = <<>>

(* `key = v`: the item just read is the key from now on. *)
KeyAssigned(f, t) == t = ItemToken /\ f.state \in {stateKey, stateParamBeforeName}

(* Where the token the Scanner has just read starts. *)
KeyStart(l) == l.pos - Len(l.itemBytes)

IndexItem ==
  /\ pc = "scan"
  /\ \E n \in {ScannerNext(lexer)} :
       \E sw \in {ScanOptionsSwitch(frame, n.l.itemType, n.l.itemBytes)} :
         /\ n.ok /\ ~sw.reject /\ ~sw.call
         /\ lexer' = n.l
         /\ frame' = sw.f
         /\ last' = IF KeyAssigned(frame, n.l.itemType)
                    THEN [last EXCEPT !.pos = KeyStart(n.l)]
                    ELSE last
  /\ UNCHANGED <<pc, result, calls, gen>>

IndexMalformed ==
  /\ pc = "scan"
  /\ \E n \in {ScannerNext(lexer)} :
       \E sw \in {ScanOptionsSwitch(frame, n.l.itemType, n.l.itemBytes)} :
         /\ n.ok /\ sw.reject
         /\ lexer' = n.l
         /\ frame' = sw.f
  /\ pc' = "done"
  /\ result' = FALSE
  /\ UNCHANGED <<last, calls, gen>>

IndexCallback ==
  /\ pc = "scan"
  /\ \E n \in {ScannerNext(lexer)} :
       \E sw \in {ScanOptionsSwitch(frame, n.l.itemType, n.l.itemBytes)} :
         /\ n.ok /\ ~sw.reject /\ sw.call
         /\ \E r \in {ScanOptionsControl(sw.f, n.l, ControlContinue, sw.growIndex)} :
              /\ calls' = Append(calls, [call |-> OptionsCall(sw.f, ControlContinue),
                                         at |-> last.pos])
              /\ lexer' = r.l
              /\ frame' = r.f
  /\ UNCHANGED <<last, pc, result, gen>>

IndexEnd ==
  /\ pc = "scan"
  /\ \E n \in {ScannerNext(lexer)} :
       /\ ~n.ok
       /\ lexer' = n.l
       /\ calls' = IF frame.mustCall
                   THEN Append(calls, [call |-> OptionsCall(frame, ControlContinue),
                                       at |-> last.pos])
                   ELSE calls
       /\ frame' = [frame EXCEPT !.ok = frame.ok \/ frame.mustCall]
       /\ result' = ScanOptionsReturn(frame, n.l)
  /\ pc' = "done"
  /\ UNCHANGED <<last, gen>>

NextIndex == IndexItem \/ IndexMalformed \/ IndexCallback \/ IndexEnd

SpecIndex == InitIndex /\ [][NextIndex]_vars

(***************************************************************************)
(* Claims about what an index identifies.                                  *)
(***************************************************************************)
ReturnedTrue == pc = "done" /\ result

SameIndexSameKey ==
  \A i, j \in 1..Len(calls) :
    (calls[i].call.index = calls[j].call.index) <=> (calls[i].at = calls[j].at)

(* C33: with a callback that always answers Continue, on every input on    *)
(* which ScanOptions returns true, two delivered tuples have the same      *)
(* index exactly when their key is the same occurrence in the input.       *)
C33_IndexIdentifiesOccurrence == ReturnedTrue => SameIndexSameKey

(* The last byte before position at that is not a space, or 0. *)
RECURSIVE ByteBefore(_, _)
ByteBefore(data, at) ==
  IF at = 0 THEN 0
  ELSE IF At(data, at - 1) = Space THEN ByteBefore(data, at - 1)
  ELSE At(data, at - 1)

(* Every key delivered starts the input or follows a comma. *)
KeysFollowCommas ==
  \A i \in 1..Len(calls) : ByteBefore(lexer.data, calls[i].at) \in {0, Comma}

(* The same for the inputs whose delivered keys each start a list element. *)
IndexIdentifiesListElement ==
  (ReturnedTrue /\ KeysFollowCommas) => SameIndexSameKey

(* Two occurrences of a were delivered, under the indices 0 and 1. *)
TwoElementsTwoIndices ==
  /\ ReturnedTrue /\ KeysFollowCommas /\ Len(calls) >= 2
  /\ calls[1].call.index = 0 /\ calls[Len(calls)].call.index = 1
  /\ calls[1].at # calls[Len(calls)].at

(* One occurrence of a was delivered twice, with two parameters. *)
OneKeyTwoTuples ==
  /\ ReturnedTrue /\ Len(calls) >= 2
  /\ calls[1].call.index = calls[2].call.index /\ calls[1].at = calls[2].at

(* Two occurrences of a were delivered under one index. *)
TwoKeysOneIndex ==
  /\ ReturnedTrue
  /\ \E i, j \in 1..Len(calls) :
       calls[i].call.index = calls[j].call.index /\ calls[i].at # calls[j].at

(***************************************************************************)
(* Claims about the list ScanTokens accepts.  list = 1#token: elements     *)
(* separated by commas, each one token with optional whitespace around it, *)
(* or empty; at least one token.                                           *)
(***************************************************************************)
(* The pieces of data between its commas. *)
RECURSIVE SplitCommas(_, _)
SplitCommas(data, piece) ==
  IF data = <<>> THEN <<piece>>
  ELSE IF Head(data) = Comma THEN <<piece>> \o SplitCommas(Tail(data), <<>>)
  ELSE SplitCommas(Tail(data), Append(piece, Head(data)))

(* A piece without the whitespace at its two ends. *)
RECURSIVE TrimLws(_)
TrimLws(p) ==
  IF p = <<>> THEN p
  ELSE IF RfcSpace(Head(p)) THEN TrimLws(Tail(p))
  ELSE IF RfcSpace(p[Len(p)]) THEN TrimLws(SubSeq(p, 1, Len(p) - 1))
  ELSE p

IsRfcTokenRun(p) == p # <<>> /\ \A i \in 1..Len(p) : RfcToken(p[i])

ListElements(data) ==
  LET pieces == SplitCommas(data, <<>>)
  IN [i \in 1..Len(pieces) |-> TrimLws(pieces[i])]

RECURSIVE NonEmpty(_)
NonEmpty(s) ==
  IF s = <<>> THEN <<>>
  ELSE (IF Head(s) = <<>> THEN <<>> ELSE <<Head(s)>>) \o NonEmpty(Tail(s))

FirstScanTrue == pc = "done" /\ gen = <<>> /\ AllTrue /\ result

(* C34: with a callback that always answers true, ScanTokens returns true  *)
(* only if the input is a 1#token list: every element between two commas   *)
(* is empty or one token, so that any two tokens delivered one after the   *)
(* other have a comma between them in the input.                           *)
C34_TrueOnlyForTokenList ==
  FirstScanTrue
    => LET elems == ListElements(lexer.data)
       IN /\ \A i \in 1..Len(elems) : elems[i] = <<>> \/ IsRfcTokenRun(elems[i])
          /\ DeliveredTokens = NonEmpty(elems)

(* What true stands for: the input holds token bytes, commas and spaces    *)
(* only, and every run of token bytes was delivered.                       *)
TrueOnlyForTokensCommasSpaces ==
  FirstScanTrue
    => /\ \A i \in 1..Len(lexer.data) :
            RfcToken(lexer.data[i]) \/ lexer.data[i] \in {Comma, Space}
       /\ DeliveredTokens # <<>>

(* a,b was scanned: two tokens with a comma between them. *)
CommaListAccepted ==
  /\ FirstScanTrue /\ lexer.data = <<97, Comma, 98>> /\ Len(calls) = 2

(* a b was scanned: two tokens with only a space between them. *)
SpaceSeparatedTokensAccepted ==
  /\ FirstScanTrue /\ lexer.data = <<97, Space, 98>> /\ Len(calls) = 2

(* The same for the inputs that hold no whitespace. *)
TrueOnlyForTokenListWithoutSpaces ==
  (FirstScanTrue /\ \A i \in 1..Len(lexer.data) : lexer.data[i] # Space)
    => LET elems == ListElements(lexer.data)
       IN /\ \A i \in 1..Len(elems) : elems[i] = <<>> \/ IsRfcTokenRun(elems[i])
          /\ DeliveredTokens = NonEmpty(elems)

(***************************************************************************)
(* WriteOptions (writer.go).  The writer is the sequence of bytes written  *)
(* to it so far.                                                           *)
(***************************************************************************)
(* The loop of writeTokenSanitized from index i on, and the writes after   *)
(* it: qt and pos are its locals, out the bytes written.                   *)
RECURSIVE writeTokenSanitizedFrom(_, _, _, _, _)
writeTokenSanitizedFrom(bts, i, qt, pos, out) ==
  IF i >= Len(bts)
  THEN IF ~qt THEN out \o bts ELSE out \o From(bts, pos) \o <<Quote>>
  ELSE LET c == At(bts, i)
           open == ~IsToken(c) /\ ~qt
           qt1 == qt \/ open
           out1 == IF open THEN Append(out, Quote) ELSE out
       IN IF IsControl(c) \/ c = Quote
          THEN writeTokenSanitizedFrom(bts, i + 1, TRUE, i + 1,
                 (IF ~qt1 THEN Append(out1, Quote) ELSE out1)
                   \o Slice(bts, pos, i) \o <<Backslash, c>>)
          ELSE writeTokenSanitizedFrom(bts, i + 1, qt1, pos, out1)

writeTokenSanitized(out, bts) == writeTokenSanitizedFrom(BytesOf(bts), 0, FALSE, 0, out)

(* `for _, p := range opt.Parameters.data()` of WriteOptions. *)
RECURSIVE writeParameters(_, _)
writeParameters(out, pairs) ==
  IF pairs = <<>> THEN out
  ELSE LET p == Head(pairs)
           k == writeTokenSanitized(Append(out, Semicolon), p.key)
       IN writeParameters(IF BytesLen(p.value) # 0
                          THEN writeTokenSanitized(Append(k, Equality), p.value)
                          ELSE k,
                          Tail(pairs))

(* One iteration of the loop of WriteOptions, for options[i] (i from 0). *)
WriteOption(out, i, opt) ==
  writeParameters(writeTokenSanitized(IF i > 0 THEN Append(out, Comma) ELSE out,
                                      opt.Name),
                  ParametersData(opt.Parameters))

(***************************************************************************)
(* SpecWrite: a list of Options is written, one Option per step, and what  *)
(* was written is handed to ParseOptions with no Options given.  gen holds *)
(* the Options written; while writing, frame holds the number of Options   *)
(* written (i), the bytes written (out) and the build's evaluation order.  *)
(***************************************************************************)
MaxText == 2

WriteAlphabet == {97, Space, Comma, Quote, Backslash, 10, 127, 200}

WriteTexts == BoundedSeq(WriteAlphabet, MaxText)

RECURSIVE SetAll(_, _)
SetAll(p, pairs) ==
  IF pairs = <<>> THEN p
  ELSE SetAll(ParametersSet(p, Head(pairs)[1], Head(pairs)[2]), Tail(pairs))

OptionWith(name, pairs) ==
  [NewOption(name) EXCEPT !.Parameters = SetAll(@, pairs)]

(* The lists written: the text t as a name, as a key, as a value, in a     *)
(* list of two Options, and as the last of nine values.                    *)
WriteLists(t) ==
  {<<OptionWith(t, <<>>)>>,
   <<OptionWith(TokenA, <<<<t, TokenB>>>>)>>,
   <<OptionWith(TokenA, <<<<TokenA, t>>>>)>>,
   <<OptionWith(TokenA, <<<<TokenA, t>>, <<TokenB, <<>>>>>>), OptionWith(TokenB, <<>>)>>,
   <<OptionWith(t, <<>>), OptionWith(t, <<<<TokenA, TokenB>>>>)>>,
   <<OptionWith(TokenB, [i \in 1..(InlinePairs + 1) |->
                          IF i <= InlinePairs THEN <<TokenA, TokenB>> ELSE <<TokenB, t>>])>>}

InitWrite ==
  /\ \E t \in WriteTexts : gen \in WriteLists(t)
  /\ lexer = NewScanner(<<>>)
  /\ last = NoCall
  /\ pc = "write"
  /\ \E order \in ReturnOrders : frame = [i |-> 0, out |-> <<>>, order |-> order]
  /\ result = [options |-> <<>>, ok |-> FALSE]
  /\ calls = <<>>

WriteNext ==
  /\ pc = "write" /\ frame.i < Len(gen)
  /\ frame' = [frame EXCEPT !.i = frame.i + 1,
                            !.out = WriteOption(frame.out, frame.i, gen[frame.i + 1])]
  /\ UNCHANGED <<lexer, last, pc, result, calls, gen>>

(* WriteOptions has returned: ParseOptions(out, nil) begins. *)
WriteParse ==
  /\ pc = "write" /\ frame.i = Len(gen)
  /\ lexer' = NewScanner(frame.out)
  /\ frame' = [scan |-> OptionsFrame, cb |-> ParseOptionsClosure(<<>>),
               given |-> <<>>, order |-> frame.order]
  /\ pc' = "scan"
  /\ UNCHANGED <<last, result, calls, gen>>

NextWrite ==
  WriteNext \/ WriteParse \/ ParseItem \/ ParseMalformed \/ ParseCallback \/ ParseEnd

SpecWrite == InitWrite /\ [][NextWrite]_vars

(***************************************************************************)
(* Claims about what WriteOptions writes.                                  *)
(***************************************************************************)
(* The bytes of t with a backslash before every control byte and quote. *)
RECURSIVE BackslashBeforeCtlAndQuote(_)
BackslashBeforeCtlAndQuote(t) ==
  IF t = <<>> THEN <<>>
  ELSE (IF RfcControl(Head(t)) \/ Head(t) = Quote
        THEN <<Backslash, Head(t)>> ELSE <<Head(t)>>)
         \o BackslashBeforeCtlAndQuote(Tail(t))

(* A name, key or value as the claim has it written. *)
Sanitized(t) ==
  IF \A i \in 1..Len(t) : RfcToken(t[i]) THEN t
  ELSE <<Quote>> \o BackslashBeforeCtlAndQuote(t) \o <<Quote>>

RECURSIVE WrittenPairs(_)
WrittenPairs(pairs) ==
  IF pairs = <<>> THEN <<>>
  ELSE <<Semicolon>> \o Sanitized(BytesOf(Head(pairs).key))
         \o (IF BytesOf(Head(pairs).value) # <<>>
             THEN <<Equality>> \o Sanitized(BytesOf(Head(pairs).value)) ELSE <<>>)
         \o WrittenPairs(Tail(pairs))

RECURSIVE WrittenList(_)
WrittenList(options) ==
  IF options = <<>> THEN <<>>
  ELSE Sanitized(BytesOf(Head(options).Name))
         \o WrittenPairs(ParametersForEach(Head(options).Parameters))
         \o (IF Len(options) > 1 THEN <<Comma>> ELSE <<>>)
         \o WrittenList(Tail(options))

Written == pc # "write"

(* C35: WriteOptions writes the options separated by `,`, each as its name *)
(* followed by `;key` and, when the value is not empty, `=value` for every *)
(* parameter in stored order; a name, key or value is written unchanged    *)
(* iff all its bytes are token characters, else between two `"` with a     *)
(* backslash before every control byte and every `"`.                      *)
C35_WrittenForm == Written => lexer.data = WrittenList(gen)

AllTexts(options) ==
  UNION {{BytesOf(options[i].Name)}
           \cup {BytesOf(ParametersForEach(options[i].Parameters)[j].key) :
                   j \in 1..Len(ParametersForEach(options[i].Parameters))}
           \cup {BytesOf(ParametersForEach(options[i].Parameters)[j].value) :
                   j \in 1..Len(ParametersForEach(options[i].Parameters))} :
         i \in 1..Len(options)}

NoByteBelow32(options) ==
  \A t \in AllTexts(options) : \A i \in 1..Len(t) : t[i] >= 32

(* The same for the Options that hold no byte below 32. *)
WrittenFormFrom32 ==
  (Written /\ NoByteBelow32(gen)) => lexer.data = WrittenList(gen)

(* `"a` was written as a name: quoted, with the quote escaped. *)
QuoteEscapedInName ==
  /\ Written /\ Len(gen) = 1
  /\ BytesOf(gen[1].Name) = <<Quote, 97>>
  /\ lexer.data = <<Quote, Backslash, Quote, 97, Quote>>

(* Nine parameters were written, the last with a value in quotes. *)
NineParametersWritten ==
  /\ Written /\ Len(gen) = 1
  /\ Len(ParametersForEach(gen[1].Parameters)) = InlinePairs + 1
  /\ lexer.data[Len(lexer.data)] = Quote
  /\ lexer.data = WrittenList(gen)

(* A line feed was written between quotes with no backslash before it. *)
ControlByteNotEscaped ==
  /\ Written /\ Len(gen) = 1
  /\ BytesOf(gen[1].Name) = <<10>>
  /\ lexer.data = <<Quote, 10, Quote>>

(***************************************************************************)
(* Claims about the calls made once ScanOptions is about to return false.  *)
(***************************************************************************)
FalseReturnDeliversNothing == (pc' = "done" /\ ~result') => calls' = calls

(* C36: once ScanOptions has met a grammar violation or the Scanner has    *)
(* entered its error state, the callback is not invoked again: the step    *)
(* that ends a run with false delivers no tuple.                           *)
C36_NoCallAfterViolation == [][FalseReturnDeliversNothing]_vars

ViolationDeliversNothing ==
  (pc' = "done" /\ ~result' /\ ~lexer'.err) => calls' = calls

(* The same for the runs the grammar switch ends, the Scanner not being in *)
(* its error state.                                                        *)
NoCallAfterGrammarViolation == [][ViolationDeliversNothing]_vars

(* A run ended by a grammar violation after a tuple had been delivered. *)
ViolationAfterDelivery ==
  /\ pc = "done" /\ ~result /\ ~lexer.err /\ calls # <<>>

(* The Scanner entered its error state and the pending key was delivered. *)
FlushedAfterScannerError ==
  /\ pc = "done" /\ ~result /\ lexer.err
  /\ frame.mustCall /\ calls # <<>>
  /\ calls[Len(calls)].key = frame.key

(***************************************************************************)
(* Claims about runtime faults of ScanCookie.  pc = "panic" is the state   *)
(* after an index or a slice bound was violated.                           *)
(***************************************************************************)
(* C37: for every input, every value of validate and every callback,       *)
(* ScanCookie returns without a runtime fault: no index or slice bound is  *)
(* violated, also when a value is empty or is the single byte `"`.         *)
C37_ScanCookieNeverFaults == pc # "panic"

(* What faults: stripQuotes on the empty value or on the one-byte value `"`. *)
FaultsOnlyInStripQuotes ==
  pc = "panic"
    => /\ lexer.itemType = ItemOctet
       /\ lexer.itemBytes \in {<<>>, <<Quote>>}

(* A pair with a value was delivered without a fault. *)
PairScannedWithoutFault ==
  /\ pc = "done" /\ result /\ calls # <<>>

(* bts[0] of an empty value. *)
FaultOnEmptyValue == pc = "panic" /\ lexer.itemBytes = <<>> /\ frame.validate

(* bts[1:0] of the value `"`. *)
FaultOnLoneQuote == pc = "panic" /\ lexer.itemBytes = <<Quote>> /\ ~frame.validate

(***************************************************************************)
(* Claims about writing and parsing again.  After the scan, gen holds the  *)
(* Options written, lexer.data the bytes written and result what           *)
(* ParseOptions returned.                                                  *)
(***************************************************************************)
IsTokenText(t) == t # <<>> /\ \A i \in 1..Len(t) : RfcToken(t[i])

(* Names and keys are non-empty tokens, values are non-empty. *)
RoundTripOption(opt) ==
  /\ IsTokenText(BytesOf(opt.Name))
  /\ \A j \in 1..Len(ParametersForEach(opt.Parameters)) :
       /\ IsTokenText(BytesOf(ParametersForEach(opt.Parameters)[j].key))
       /\ BytesOf(ParametersForEach(opt.Parameters)[j].value) # <<>>

RoundTripList(options) == \A i \in 1..Len(options) : RoundTripOption(options[i])

PairwiseEqual(xs, ys) ==
  /\ Len(xs) = Len(ys)
  /\ \A i \in 1..Len(xs) : \A build \in SortBuilds : OptionEqual(build, xs[i], ys[i]).eq

ParsedBack == pc = "done" /\ RoundTripList(gen)

(* C38: for every list of Options whose names and keys are non-empty       *)
(* tokens and whose values are non-empty byte strings, ParseOptions on the *)
(* output of WriteOptions returns true and Options pairwise Equal to the   *)
(* ones written.                                                           *)
C38_WriteParseRoundTrip ==
  ParsedBack => (result.ok /\ PairwiseEqual(result.options, gen))

(* A byte the writer or the parser treats specially inside a value. *)
NeedsEscape(c) == c = Backslash \/ c = Quote \/ RfcControl(c)

PlainValues(options) ==
  \A i \in 1..Len(options) :
    \A j \in 1..Len(ParametersForEach(options[i].Parameters)) :
      \A k \in 1..Len(BytesOf(ParametersForEach(options[i].Parameters)[j].value)) :
        ~NeedsEscape(BytesOf(ParametersForEach(options[i].Parameters)[j].value)[k])

(* The same for the values without a backslash, a quote or a control byte, *)
(* in a build that reads the operand options after the call.               *)
RoundTripOfPlainValues ==
  (ParsedBack /\ PlainValues(gen) /\ frame.order = "callFirst")
    => (result.ok /\ PairwiseEqual(result.options, gen))

(* The value `, ` (a comma and a space) came back. *)
CommaSpaceCameBack ==
  /\ ParsedBack /\ result.ok /\ PairwiseEqual(result.options, gen)
  /\ Len(gen) = 1
  /\ SeenAll(gen) = <<[name |-> TokenA, params |-> <<<<TokenA, <<Comma, Space>>>>>>]>>

(* The value of one backslash was written as `"\"`, which does not parse. *)
BackslashValueLost ==
  /\ ParsedBack /\ ~result.ok /\ frame.order = "callFirst" /\ Len(gen) = 1
  /\ SeenAll(gen) = <<[name |-> TokenA, params |-> <<<<TokenA, <<Backslash>>>>>>]>>

(* The value `\a` came back as another value, with true. *)
BackslashDroppedFromValue ==
  /\ ParsedBack /\ result.ok /\ frame.order = "callFirst" /\ Len(gen) = 1
  /\ SeenAll(gen) = <<[name |-> TokenA, params |-> <<<<TokenA, <<Backslash, 97>>>>>>]>>
  /\ SeenAll(result.options) # SeenAll(gen)

(* The value `"` was written as `"\""` and came back empty, with true. *)
QuoteValueCameBackEmpty ==
  /\ ParsedBack /\ result.ok /\ frame.order = "callFirst" /\ Len(gen) = 1
  /\ SeenAll(gen) = <<[name |-> TokenA, params |-> <<<<TokenA, <<Quote>>>>>>]>>
  /\ SeenAll(result.options) = <<[name |-> TokenA, params |-> <<<<TokenA, <<>>>>>>]>>

(***************************************************************************)
(* Claims about the position of the Scanner.  last.pos is the position     *)
(* before the last call.                                                   *)
(***************************************************************************)
(* s can be had from t by leaving bytes out. *)
RECURSIVE IsSubsequence(_, _)
IsSubsequence(s, t) ==
  IF s = <<>> THEN TRUE
  ELSE IF t = <<>> THEN FALSE
  ELSE IF Head(s) = Head(t) THEN IsSubsequence(Tail(s), Tail(t))
  ELSE IsSubsequence(s, Tail(t))

NextYielded == last.op = "Next" /\ last.ok

(* C39: in every reachable Scanner state 0 <= pos <= len(data); no call of *)
(* Next, NextOctet, Peek, Skip or SkipEscaped decreases pos; every Next    *)
(* that returns true increases pos, and its item is taken from the bytes   *)
(* between the old and the new position.                                   *)
C39_PositionAdvances ==
  /\ 0 <= lexer.pos /\ lexer.pos <= Len(lexer.data)
  /\ lexer.pos >= last.pos
  /\ NextYielded
       => /\ lexer.pos > last.pos
          /\ IsSubsequence(lexer.itemBytes, Slice(lexer.data, last.pos, lexer.pos))

(* Next has yielded a quoted-string shorter than its body, after another *)
(* call had moved the position.                                          *)
EscapedStringYielded ==
  /\ NextYielded /\ lexer.itemType = ItemString
  /\ last.pos > 0
  /\ Len(lexer.itemBytes) < lexer.pos - last.pos - 2

(***************************************************************************)
(* SpecTermination: ScanOptions or ScanTokens on any input, with any       *)
(* answers of the callback, run to its end: a call of a function that is   *)
(* running takes its next step, so the steps are weakly fair.              *)
(***************************************************************************)
(* Pieces that make every inner loop run: a token, a list element after a
   comma and a space, a parameter, a quoted value with an escape, a comment. *)
ScansPieces ==
  {<<97>>, <<Comma, Space, 97>>, <<Semicolon, 97>>,
   <<Equality, Quote, Backslash, 97, Quote>>, <<OpenParen, CloseParen>>}

ScansInputs == {Flatten(pieces) : pieces \in BoundedSeq(ScansPieces, MaxTail)}

InitScans ==
  /\ \E data \in ScansInputs : lexer = NewScanner(data)
  /\ last = NoCall
  /\ pc \in {"scan", "tokens"}
  /\ frame = OptionsFrame
  /\ result = FALSE
  /\ calls = <<>>
  /\ gen = <<>>

(* One call of either function: the second scan of SpecTokens is left out. *)
NextScans ==
  NextOptions \/ TokensToken \/ TokensSeparator \/ TokensOther \/ TokensEnd

SpecTermination == InitScans /\ [][NextScans]_vars /\ WF_vars(NextScans)

Scanning == pc \in {"scan", "tokens"}

(* An iteration after which the loop goes on has consumed input. *)
IterationConsumes == (Scanning /\ pc' = pc) => lexer'.pos > lexer.pos

CallsReachLength ==
  /\ pc = "done" /\ Len(calls) >= 1 /\ Len(calls) = Len(lexer.data)

=============================================================================
